---- MODULE Spec2Model ----
(***************************************************************************)
(* A model of manfred's session core: the phase state machine              *)
(* (internal/session phase file), the Session entity (internal/session     *)
(* session file), the SQLite session store and its event log               *)
(* (internal/session/store.go over the schema of                           *)
(* internal/store/migrations.go) and the migration runner.                 *)
(*                                                                         *)
(* Strings are TLA+ strings; a Go pointer field (to int or string) is the  *)
(* empty tuple when nil and a one-element tuple when set, and a Go error   *)
(* value is modelled the same way (Nil = no error).                        *)
(***************************************************************************)
EXTENDS Integers, Sequences, FiniteSets, TLC

VARIABLES
    phaseIn,        \* the (from, to) pair handed to the pure phase functions
    sess,           \* the caller's in-memory Session
    now,            \* the wall clock read by time.Now()
    ret,            \* the last call made: its name, arguments, error and output
    completedSeen,  \* history: the in-memory session has been in phase completed
    pc,             \* position of the end-to-end scenario script (SpecRunner: of Run)
    db,             \* the database: the rows of its sessions table
    loops,          \* the orchestration loops (callers) working against the store
    recorded,       \* history: the events recorded and not deleted, in call order
                    \*   (SpecWalk: the phases the session has been in;
                    \*    SpecRunner: the steps the runs have taken)
    mig,            \* the schema of a database file and the run of Migrate on it
    tickets,        \* the ticket files of a project and the run(s) of Process on them
    client          \* the GitHub client and the server calls it has made

vars ==
    <<phaseIn, sess, now, ret, completedSeen, pc, db, loops, recorded, mig,
      tickets, client>>

-----------------------------------------------------------------------------
(* Bounds and input sets *)

MaxTime == 2

Owners == {"a", "a-b"}
Repos == {"c", "b-c"}
IssueNumbers == {1, 7}
PlanTexts == {"plan A", "do X"}
ErrorTexts == {"boom", "late failure"}
PRNumbers == {0, 12}
ContainerIDs == {"c1"}

\* Phase values handed to the phase functions and to TransitionTo: the
\* seven phases and two strings that are no phase.
PhaseInputs ==
    { "planning", "awaiting_approval", "implementing", "in_review",
      "revising", "completed", "error", "", "bogus" }

-----------------------------------------------------------------------------
(* Go values *)

Nil == <<>>

Ptr(v) == <<v>>

\* The sequences that hold each element of the set rows once.
Orderings(rows) ==
    { q \in [1..Cardinality(rows) -> rows] :
          \A i, j \in 1..Cardinality(rows) : i # j => q[i] # q[j] }

\* A call as ret records it: the clock when it was made, the state it was
\* made on (the receiver Session, or the database), its arguments, the error
\* it returned and its other results.
Called(op, pre, arg, err, out) ==
    [op |-> op, at |-> now, pre |-> pre, arg |-> arg, err |-> err, out |-> out]

NoCall == [op |-> "none", at |-> 0, pre |-> <<>>, arg |-> <<>>, err |-> Nil, out |-> <<>>]

-----------------------------------------------------------------------------
(* Phase state machine *)

PhasePlanning == "planning"
PhaseAwaitingApproval == "awaiting_approval"
PhaseImplementing == "implementing"
PhaseInReview == "in_review"
PhaseRevising == "revising"
PhaseCompleted == "completed"
PhaseError == "error"

AllPhases ==
    << PhasePlanning, PhaseAwaitingApproval, PhaseImplementing, PhaseInReview,
       PhaseRevising, PhaseCompleted, PhaseError >>

IsValid(p) ==
    p \in { PhasePlanning, PhaseAwaitingApproval, PhaseImplementing,
            PhaseInReview, PhaseRevising, PhaseCompleted, PhaseError }

IsTerminal(p) == p = PhaseCompleted \/ p = PhaseError

\* Mutant of validTransitions: completed is given a way back to planning.
validTransitionsCompletedRetry ==
    (PhasePlanning         :> <<PhaseAwaitingApproval, PhaseError>>) @@
    (PhaseAwaitingApproval :> <<PhasePlanning, PhaseImplementing, PhaseError>>) @@
    (PhaseImplementing     :> <<PhaseInReview, PhaseError>>) @@
    (PhaseInReview         :> <<PhaseRevising, PhaseCompleted, PhaseError>>) @@
    (PhaseRevising         :> <<PhaseInReview, PhaseError>>) @@
    (PhaseCompleted        :> <<PhasePlanning>>) @@
    (PhaseError            :> <<PhasePlanning>>)

\* Mutant of validTransitions: implementing may go straight to completed.
validTransitionsShortcut ==
    (PhasePlanning         :> <<PhaseAwaitingApproval, PhaseError>>) @@
    (PhaseAwaitingApproval :> <<PhasePlanning, PhaseImplementing, PhaseError>>) @@
    (PhaseImplementing     :> <<PhaseInReview, PhaseCompleted, PhaseError>>) @@
    (PhaseInReview         :> <<PhaseRevising, PhaseCompleted, PhaseError>>) @@
    (PhaseRevising         :> <<PhaseInReview, PhaseError>>) @@
    (PhaseCompleted        :> <<>>) @@
    (PhaseError            :> <<PhasePlanning>>)

validTransitions ==
    (PhasePlanning         :> <<PhaseAwaitingApproval, PhaseError>>) @@
    (PhaseAwaitingApproval :> <<PhasePlanning, PhaseImplementing, PhaseError>>) @@
    (PhaseImplementing     :> <<PhaseInReview, PhaseError>>) @@
    (PhaseInReview         :> <<PhaseRevising, PhaseCompleted, PhaseError>>) @@
    (PhaseRevising         :> <<PhaseInReview, PhaseError>>) @@
    (PhaseCompleted        :> <<>>) @@
    (PhaseError            :> <<PhasePlanning>>)

CanTransitionTo(p, target) ==
    IF p \notin DOMAIN validTransitions
    THEN FALSE
    ELSE LET allowed == validTransitions[p]
         IN  \E i \in 1..Len(allowed) : allowed[i] = target

TransitionError(from, to) == [From |-> from, To |-> to]

\* Mutant of ValidateTransition: the error carries its endpoints swapped.
ValidateTransitionSwapped(from, to) ==
    IF ~CanTransitionTo(from, to) THEN Ptr(TransitionError(to, from)) ELSE Nil

ValidateTransition(from, to) ==
    IF ~CanTransitionTo(from, to) THEN Ptr(TransitionError(from, to)) ELSE Nil

-----------------------------------------------------------------------------
(* ParsePhase and the string functions it calls.  A string is handled       *)
(* character by character; a character is a string of length 1.             *)

UpperLetters == "ABCDEFGHIJKLMNOPQRSTUVWXYZ"
LowerLetters == "abcdefghijklmnopqrstuvwxyz"

\* unicode.IsSpace on the characters of the inputs.
IsSpace(c) == c \in {" ", "\t", "\n", "\r", "\f"}

\* strings.TrimSpace: the string without its leading and trailing whitespace.
TrimSpace(str) ==
    LET RECURSIVE TrimLeft(_)
        TrimLeft(x) ==
            IF Len(x) > 0 /\ IsSpace(SubSeq(x, 1, 1))
            THEN TrimLeft(SubSeq(x, 2, Len(x)))
            ELSE x
        RECURSIVE TrimRight(_)
        TrimRight(x) ==
            IF Len(x) > 0 /\ IsSpace(SubSeq(x, Len(x), Len(x)))
            THEN TrimRight(SubSeq(x, 1, Len(x) - 1))
            ELSE x
    IN  TrimRight(TrimLeft(str))

\* strings.ToLower: every capital letter replaced by its small letter.
RECURSIVE ToLower(_)
ToLower(str) ==
    LET c == SubSeq(str, 1, 1)
        capitals == { i \in 1..Len(UpperLetters) : SubSeq(UpperLetters, i, i) = c }
        lower == IF capitals = {}
                 THEN c
                 ELSE LET i == CHOOSE i \in capitals : TRUE
                      IN  SubSeq(LowerLetters, i, i)
    IN  IF Len(str) = 0
        THEN ""
        ELSE lower \o ToLower(SubSeq(str, 2, Len(str)))

\* The %q verb: the string in double quotes with Go escapes.
Quote(str) ==
    LET escaped(c) == CASE c = "\t" -> "\\t"
                        [] c = "\n" -> "\\n"
                        [] c = "\r" -> "\\r"
                        [] c = "\f" -> "\\f"
                        [] c = "\"" -> "\\\""
                        [] c = "\\" -> "\\\\"
                        [] OTHER -> c
        RECURSIVE body(_)
        body(x) == IF Len(x) = 0
                   THEN ""
                   ELSE escaped(SubSeq(x, 1, 1)) \o body(SubSeq(x, 2, Len(x)))
    IN  "\"" \o body(str) \o "\""

\* ParsePhase that lower-cases the input as it stands.
ParsePhaseUntrimmed(str) ==
    LET p == ToLower(str)
    IN  IF ~IsValid(p)
        THEN [phase |-> "", err |-> Ptr("invalid phase: " \o Quote(str))]
        ELSE [phase |-> p, err |-> Nil]

ParsePhase(str) ==
    LET p == ToLower(TrimSpace(str))
    IN  IF ~IsValid(p)
        THEN [phase |-> "", err |-> Ptr("invalid phase: " \o Quote(str))]
        ELSE [phase |-> p, err |-> Nil]

-----------------------------------------------------------------------------
(* Session entity.  Every method is an operator from the receiver (and the  *)
(* clock value time.Now() returns) to the receiver afterwards, with the     *)
(* returned error where the method returns one.                             *)

GenerateSessionID(owner, repo, issueNumber) ==
    owner \o "-" \o repo \o "-issue-" \o ToString(issueNumber)

\* GenerateBranchName with the prefix of another agent.
GenerateBranchNameAgent(issueNumber) == "agent/issue-" \o ToString(issueNumber)

GenerateBranchName(issueNumber) == "claude/issue-" \o ToString(issueNumber)

NewSession(owner, repo, issueNumber, t) ==
    [ ID           |-> GenerateSessionID(owner, repo, issueNumber),
      RepoOwner    |-> owner,
      RepoName     |-> repo,
      IssueNumber  |-> issueNumber,
      PRNumber     |-> Nil,
      Phase        |-> PhasePlanning,
      Branch       |-> GenerateBranchName(issueNumber),
      ContainerID  |-> Nil,
      PlanContent  |-> Nil,
      ErrorMessage |-> Nil,
      CreatedAt    |-> t,
      LastActivity |-> t ]

\* Mutant of TransitionTo: the phase is assigned before the transition is validated.
TransitionToAssignFirst(s, target, t) ==
    LET err == ValidateTransition(s.Phase, target)
    IN  IF err # Nil
        THEN [s |-> [s EXCEPT !.Phase = target], err |-> err]
        ELSE [s |-> [s EXCEPT !.Phase = target, !.LastActivity = t], err |-> Nil]

TransitionTo(s, target, t) ==
    LET err == ValidateTransition(s.Phase, target)
    IN  IF err # Nil
        THEN [s |-> s, err |-> err]
        ELSE [s |-> [s EXCEPT !.Phase = target, !.LastActivity = t], err |-> Nil]

\* Mutant of SetPlan: the plan is stored before the transition is attempted.
SetPlanStoreFirst(s, plan, t) ==
    LET r == TransitionTo([s EXCEPT !.PlanContent = Ptr(plan)], PhaseAwaitingApproval, t)
    IN  r

SetPlan(s, plan, t) ==
    LET r == TransitionTo(s, PhaseAwaitingApproval, t)
    IN  IF r.err # Nil
        THEN r
        ELSE [s |-> [r.s EXCEPT !.PlanContent = Ptr(plan)], err |-> Nil]

\* Mutant of Approve: the phase is set to implementing without the state machine.
ApproveUnchecked(s, t) ==
    [s |-> [s EXCEPT !.Phase = PhaseImplementing, !.LastActivity = t], err |-> Nil]

Approve(s, t) == TransitionTo(s, PhaseImplementing, t)

SetPRNumber(s, prNumber, t) ==
    [s EXCEPT !.PRNumber = Ptr(prNumber), !.LastActivity = t]

\* Mutant of SetError: a rejected transition is returned instead of forced.
SetErrorGated(s, msg, t) ==
    LET r == TransitionTo(s, PhaseError, t)
    IN  IF r.err # Nil
        THEN r
        ELSE [s |-> [r.s EXCEPT !.ErrorMessage = Ptr(msg), !.LastActivity = t],
              err |-> Nil]

SetError(s, msg, t) ==
    LET r == TransitionTo(s, PhaseError, t)
        forced == IF r.err # Nil THEN [r.s EXCEPT !.Phase = PhaseError] ELSE r.s
    IN  [s |-> [forced EXCEPT !.ErrorMessage = Ptr(msg), !.LastActivity = t],
         err |-> Nil]

\* Mutant of SetContainerID: the id is stored only while the phase is not terminal.
SetContainerIDGated(s, containerID, t) ==
    IF IsTerminal(s.Phase)
    THEN s
    ELSE [s EXCEPT !.ContainerID = Ptr(containerID), !.LastActivity = t]

SetContainerID(s, containerID, t) ==
    [s EXCEPT !.ContainerID = Ptr(containerID), !.LastActivity = t]

ClearContainerID(s, t) ==
    [s EXCEPT !.ContainerID = Nil, !.LastActivity = t]

\* Touch that stamps the session with the time it was created.
TouchBackdated(s, t) == [s EXCEPT !.LastActivity = s.CreatedAt]

Touch(s, t) == [s EXCEPT !.LastActivity = t]

-----------------------------------------------------------------------------
(* The database connection *)

\* Mutant of Open: the foreign_keys pragma is not set on the connection.
OpenWithoutForeignKeys ==
    [sessions |-> {}, events |-> {}, seq |-> 0, foreign_keys |-> FALSE]

\* The database Open returns, its schema migrated and its tables empty.
Open == [sessions |-> {}, events |-> {}, seq |-> 0, foreign_keys |-> TRUE]

-----------------------------------------------------------------------------
(* Schema migrations.  A database file is the set of its tables and the     *)
(* set of versions in its schema_migrations table; tx is the transaction    *)
(* open on it (Nil when none), holding the tables and versions it will      *)
(* commit.  The rest of the record is the run of runMigrations: its         *)
(* position, the version it read, its index into migrations, how the last   *)
(* run ended, and as history the file when the run began, the versions the  *)
(* run recorded and the versions recorded by all runs.                      *)

migrations ==
    << [Version |-> 1, Table |-> "sessions"],
       [Version |-> 2, Table |-> "session_events"],
       [Version |-> 3, Table |-> "schema_migrations"] >>

LatestVersion ==
    IF Len(migrations) = 0 THEN 0 ELSE migrations[Len(migrations)].Version

\* SELECT COALESCE(MAX(version), 0) FROM schema_migrations
CurrentVersion(versions) ==
    IF versions = {} THEN 0 ELSE CHOOSE v \in versions : \A w \in versions : w <= v

NewFile ==
    [ tables |-> {}, versions |-> {}, tx |-> Nil,
      pc |-> "idle", currentVersion |-> 0, i |-> 0, ended |-> "none", runs |-> 0,
      start |-> [tables |-> {}, versions |-> {}], ran |-> <<>>, log |-> <<>> ]

\* Mutant of Pending: the step right after the current version is passed over.
PendingAfterNext(m, currentVersion) == ~(m.Version <= currentVersion + 1)

\* A migration the loop does not pass over.
Pending(m, currentVersion) == ~(m.Version <= currentVersion)

\* CREATE TABLE IF NOT EXISTS schema_migrations, in autocommit mode.
Bootstrap(g) == [g EXCEPT !.tables = @ \cup {"schema_migrations"}]

\* INSERT INTO schema_migrations in autocommit mode (migration 3).
RecordApplied(g, m) ==
    [g EXCEPT !.versions = @ \cup {m.Version},
              !.ran = Append(@, m.Version),
              !.log = Append(@, m.Version)]

BeginTx(g) == [g EXCEPT !.tx = Ptr([tables |-> g.tables, versions |-> g.versions])]

\* Mutant of TxExecUp: the schema change takes effect at once, outside the
\* transaction (DDL with an implicit commit).
TxExecUpAutocommit(g, m) ==
    [g EXCEPT !.tables = @ \cup {m.Table}, !.tx[1].tables = @ \cup {m.Table}]

\* tx.ExecContext(ctx, m.Up)
TxExecUp(g, m) == [g EXCEPT !.tx[1].tables = @ \cup {m.Table}]

\* tx.ExecContext(ctx, "INSERT INTO schema_migrations ...")
TxRecord(g, m) == [g EXCEPT !.tx[1].versions = @ \cup {m.Version}]

Commit(g, m) ==
    [g EXCEPT !.tables = g.tx[1].tables,
              !.versions = g.tx[1].versions,
              !.tx = Nil,
              !.ran = Append(@, m.Version),
              !.log = Append(@, m.Version)]

Rollback(g) == [g EXCEPT !.tx = Nil]

-----------------------------------------------------------------------------
(* Tickets.  The ticket files of one project: a file is in the directory of *)
(* a status, is named after the ticket id and holds the ticket.  A store    *)
(* method is an operator from the files to the files afterwards and its     *)
(* results; fault is the error of the file write, Nil when it succeeds.     *)

StatusPending == "pending"
StatusInProgress == "in_progress"
StatusError == "error"
StatusCompleted == "completed"

AllStatuses == <<StatusPending, StatusInProgress, StatusError, StatusCompleted>>

EntryTypePrompt == "prompt"
EntryTypeComment == "comment"

JobStatusCompleted == "completed"
JobStatusFailed == "failed"

\* New, with the id generateTicketID returned and the clock value it read.
NewTicket(id, t) ==
    [ID |-> id, Status |-> StatusPending, CreatedAt |-> t, JobID |-> "",
     Entries |-> <<>>]

AddEntry(ticket, entryType, author, content) ==
    [ticket EXCEPT !.Entries =
        Append(@, [Type |-> entryType, Author |-> author, Content |-> content])]

PromptContent(ticket) ==
    LET prompts == { i \in 1..Len(ticket.Entries) :
                       ticket.Entries[i].Type = EntryTypePrompt }
    IN  IF prompts = {}
        THEN ""
        ELSE ticket.Entries[CHOOSE i \in prompts : \A j \in prompts : i <= j].Content

\* The status whose directory holds a file of the id, looked for in the order
\* of AllStatuses; Nil when there is none.
FindTicketStatus(files, id) ==
    LET found == { k \in 1..Len(AllStatuses) :
                     \E f \in files : f.dir = AllStatuses[k] /\ f.name = id }
    IN  IF found = {}
        THEN Nil
        ELSE Ptr(AllStatuses[CHOOSE k \in found : \A j \in found : k <= j])

FileStoreGet(files, id) ==
    LET status == FindTicketStatus(files, id)
    IN  IF status = Nil
        THEN Nil
        ELSE Ptr((CHOOSE f \in files : f.dir = status[1] /\ f.name = id).data)

SaveTicket(files, ticket, fault) ==
    IF fault # Nil
    THEN [files |-> files, err |-> Ptr("failed to write ticket: " \o fault[1])]
    ELSE [files |-> { f \in files : ~(f.dir = ticket.Status /\ f.name = ticket.ID) }
                        \cup {[dir |-> ticket.Status, name |-> ticket.ID,
                               data |-> ticket]},
          err |-> Nil]

FileStoreCreate(files, id, prompt, t, fault) ==
    LET ticket == AddEntry(NewTicket(id, t), EntryTypePrompt, "user", prompt)
        r == SaveTicket(files, ticket, fault)
    IN  [files |-> r.files, err |-> r.err,
         ticket |-> IF r.err = Nil THEN Ptr(ticket) ELSE Nil]

FileStoreUpdate(files, ticket, fault) ==
    LET oldStatus == FindTicketStatus(files, ticket.ID)
        removed == IF oldStatus # Nil /\ oldStatus[1] # ticket.Status
                   THEN { f \in files :
                            ~(f.dir = oldStatus[1] /\ f.name = ticket.ID) }
                   ELSE files
    IN  SaveTicket(removed, ticket, fault)

\* The results List can return: the tickets of the status (of every status
\* when status is Nil) by creation time, tickets created at the same time in
\* any order.
FileStoreList(files, status) ==
    LET listed == { f.data : f \in { g \in files : status = Nil \/ g.dir = status[1] } }
    IN  { q \in Orderings(listed) :
            \A i \in 1..(Len(q) - 1) : ~(q[i + 1].CreatedAt < q[i].CreatedAt) }

\* NextPending that takes the pending ticket created last.
NextPendingNewest(files) ==
    { IF Len(q) = 0 THEN Nil ELSE Ptr(q[Len(q)]) :
          q \in FileStoreList(files, Ptr(StatusPending)) }

NextPending(files) ==
    { IF Len(q) = 0 THEN Nil ELSE Ptr(q[1]) :
          q \in FileStoreList(files, Ptr(StatusPending)) }

\* os.Remove of the file of the id in the directory of the status; the error
\* of removing a file that is not there is dropped by the caller.
RemoveFile(files, status, id) ==
    { f \in files : ~(f.dir = status /\ f.name = id) }

\* No ticket files, no ticket id given out, no Process running.
NoTickets ==
    [files |-> {}, next |-> 0, pc |-> "idle", ticket |-> Nil, fifo |-> <<>>]

\* Process that takes the ticket whatever its status is.
ProcessCheckAnyStatus(ticket) ==
    IF PromptContent(ticket) = ""
    THEN Ptr("ticket " \o ticket.ID \o " has no prompt content")
    ELSE Nil

\* The checks of Process on the ticket it found: the error it returns, Nil
\* when the ticket is processable.
ProcessCheck(ticket) ==
    IF ticket.Status # StatusPending
    THEN Ptr("ticket " \o ticket.ID \o " is not pending (status: "
                \o ticket.Status \o ")")
    ELSE IF PromptContent(ticket) = ""
    THEN Ptr("ticket " \o ticket.ID \o " has no prompt content")
    ELSE Nil

\* Process up to the start of the job: the ticket is looked up (found is what
\* Get or NextPending returned), checked and marked in progress.  pc is
\* "marked" when Process goes on to the job and "idle" when it has returned.
ProcessBegin(k, ticketID, found, fault) ==
    LET check == ProcessCheck(found[1])
        marked == [found[1] EXCEPT !.Status = StatusInProgress]
        upd == FileStoreUpdate(k.files, marked, fault)
    IN  IF found = Nil
        THEN [k |-> k, ticket |-> Nil,
              err |-> IF ticketID # ""
                      THEN Ptr("ticket not found: " \o ticketID)
                      ELSE Nil]
        ELSE IF check # Nil
        THEN [k |-> k, ticket |-> Nil, err |-> check]
        ELSE IF upd.err # Nil
        THEN [k |-> [k EXCEPT !.files = upd.files], ticket |-> Nil,
              err |-> Ptr("failed to update ticket status: " \o upd.err[1])]
        ELSE [k |-> [k EXCEPT !.files = upd.files, !.pc = "marked",
                              !.ticket = Ptr(marked),
                              !.fifo = IF ticketID = ""
                                       THEN Append(@, [ID |-> marked.ID,
                                                       CreatedAt |-> marked.CreatedAt])
                                       ELSE @],
              ticket |-> Ptr(marked), err |-> Nil]

\* job.NewRunner failed: the ticket is saved with status error and returned.
ProcessRunnerFailed(k, cause, fault) ==
    LET ticket == AddEntry([k.ticket[1] EXCEPT !.Status = StatusError],
                           EntryTypeComment, "manfred",
                           "Failed to create job runner: " \o cause)
        upd == FileStoreUpdate(k.files, ticket, fault)
    IN  [k |-> [k EXCEPT !.files = upd.files, !.pc = "idle", !.ticket = Nil],
         ticket |-> Ptr(ticket),
         err |-> Ptr("failed to create job runner: " \o cause)]

\* Mutant of ProcessFinish: a job that Run returned without error counts as
\* completed whatever its status is.
ProcessFinishOptimistic(k, run, fault) ==
    LET failed == AddEntry([k.ticket[1] EXCEPT !.Status = StatusError],
                           EntryTypeComment, "manfred",
                           "Job failed: " \o run.err[1])
        done == AddEntry([k.ticket[1] EXCEPT !.JobID = run.job.ID,
                                             !.Status = StatusCompleted],
                         EntryTypeComment, "manfred",
                         "Job completed: " \o run.job.ID)
        ticket == IF run.err # Nil THEN failed ELSE done
        upd == FileStoreUpdate(k.files, ticket, fault)
    IN  [k |-> [k EXCEPT !.files = upd.files, !.pc = "idle", !.ticket = Nil],
         ticket |-> Ptr(ticket),
         err |-> IF run.err # Nil
                 THEN Ptr("job failed: " \o run.err[1])
                 ELSE IF upd.err # Nil
                 THEN Ptr("failed to update ticket: " \o upd.err[1])
                 ELSE Nil]

\* runner.Run returned: run is its error or the job it ran.
ProcessFinish(k, run, fault) ==
    LET failed == AddEntry([k.ticket[1] EXCEPT !.Status = StatusError],
                           EntryTypeComment, "manfred",
                           "Job failed: " \o run.err[1])
        j == run.job
        comment == "Job completed: " \o j.ID
                       \o (IF j.CommitMessage # ""
                           THEN "\n\nCommit message:\n" \o j.CommitMessage
                           ELSE "")
        done == IF j.Status = JobStatusCompleted
                THEN AddEntry([k.ticket[1] EXCEPT !.JobID = j.ID,
                                                  !.Status = StatusCompleted],
                              EntryTypeComment, "manfred", comment)
                ELSE AddEntry([k.ticket[1] EXCEPT !.JobID = j.ID,
                                                  !.Status = StatusError],
                              EntryTypeComment, "manfred",
                              "Job failed: " \o j.ID \o "\nError: " \o j.Error)
        ticket == IF run.err # Nil THEN failed ELSE done
        upd == FileStoreUpdate(k.files, ticket, fault)
    IN  [k |-> [k EXCEPT !.files = upd.files, !.pc = "idle", !.ticket = Nil],
         ticket |-> Ptr(ticket),
         err |-> IF run.err # Nil
                 THEN Ptr("job failed: " \o run.err[1])
                 ELSE IF upd.err # Nil
                 THEN Ptr("failed to update ticket: " \o upd.err[1])
                 ELSE Nil]

-----------------------------------------------------------------------------
(* The GitHub client.  A response is the status code and the three          *)
(* rate-limit headers of an HTTP response, "" for a header that is absent.  *)

Digits == "0123456789"

\* strconv.Atoi with its error dropped: the number a string of digits
\* writes, 0 for any other string.
Atoi(str) ==
    LET digit(c) == { d \in 1..Len(Digits) : SubSeq(Digits, d, d) = c }
        RECURSIVE value(_, _)
        value(x, acc) ==
            IF Len(x) = 0
            THEN acc
            ELSE value(SubSeq(x, 2, Len(x)),
                       acc * 10 + (CHOOSE d \in digit(SubSeq(x, 1, 1)) : TRUE) - 1)
    IN  IF Len(str) > 0 /\ \A i \in 1..Len(str) : digit(SubSeq(str, i, i)) # {}
        THEN value(str, 0)
        ELSE 0

\* NewClient with the option WithRateLimitBuffer(n).
NewClient(n) == [rateLimit |-> Nil, rateLimitBuf |-> n]

UpdateRateLimit(c, resp) ==
    IF resp.limit = "" \/ resp.remaining = "" \/ resp.reset = ""
    THEN c
    ELSE [c EXCEPT !.rateLimit = Ptr([ Limit     |-> Atoi(resp.limit),
                                       Remaining |-> Atoi(resp.remaining),
                                       Reset     |-> Atoi(resp.reset) ])]

RateLimitError(rl) ==
    Ptr([type |-> "RateLimitError", Remaining |-> rl.Remaining, Reset |-> rl.Reset])

\* checkRateLimit that lets the request through when exactly the buffer remains.
CheckRateLimitBelowBuffer(c, t) ==
    IF c.rateLimit = Nil
    THEN Nil
    ELSE IF c.rateLimit[1].Remaining < c.rateLimitBuf /\ c.rateLimit[1].Reset - t > 0
    THEN RateLimitError(c.rateLimit[1])
    ELSE Nil

CheckRateLimit(c, t) ==
    IF c.rateLimit = Nil
    THEN Nil
    ELSE IF c.rateLimit[1].Remaining <= c.rateLimitBuf /\ c.rateLimit[1].Reset - t > 0
    THEN RateLimitError(c.rateLimit[1])
    ELSE Nil

\* do on a request the rate-limit check let through: transport is the
\* error of httpClient.Do (Nil when a response came), resp the response.
DoRequest(c, transport, resp) ==
    IF transport # Nil
    THEN [c |-> c, err |-> Ptr("request failed: " \o transport[1])]
    ELSE [c |-> UpdateRateLimit(c, resp),
          err |-> IF resp.status >= 400
                  THEN Ptr([type |-> "APIError", StatusCode |-> resp.status])
                  ELSE Nil]

\* The client of the idle specifications: the default buffer, no call made.
NoClient == [c |-> NewClient(100), calls |-> 0, low |-> {}]

-----------------------------------------------------------------------------
(* Jobs and the job runner.  A job is the Job struct without its paths and  *)
(* git fields.                                                              *)

JobStatusPending == "pending"
JobStatusRunning == "running"

\* job.New, with the id generateJobID made for it.
JobNew(id, projectName, prompt, t) ==
    [ ID            |-> id,
      ProjectName   |-> projectName,
      Prompt        |-> prompt,
      Status        |-> JobStatusPending,
      CreatedAt     |-> t,
      StartedAt     |-> Nil,
      CompletedAt   |-> Nil,
      Error         |-> "",
      CommitMessage |-> "" ]

JobStart(j, t) == [j EXCEPT !.StartedAt = Ptr(t), !.Status = JobStatusRunning]

JobComplete(j, t) == [j EXCEPT !.CompletedAt = Ptr(t), !.Status = JobStatusCompleted]

JobFail(j, err, t) ==
    [j EXCEPT !.CompletedAt = Ptr(t), !.Status = JobStatusFailed, !.Error = err]

\* The projects that exist under the projects directory, with their
\* configuration and repository.
KnownProjects == {"p"}

ValidateProject(name) ==
    IF name \notin KnownProjects
    THEN Ptr("project not found: " \o name)
    ELSE Nil

\* The end of Run, after the cleanup: the job fails with the text of the
\* error of executeJob, or completes.
RunFinish(j, err, t) ==
    IF err # Nil THEN JobFail(j, err[1], t) ELSE JobComplete(j, t)

\* Mutant of RunCleanup: the containers are stopped only after an execution
\* without error.
RunCleanupOnSuccess(err) == IF err = Nil THEN <<"down">> ELSE <<>>

\* The calls of ComposeDown Run makes after executeJob has returned err.
RunCleanup(err) == <<"down">>

-----------------------------------------------------------------------------
(* The parts of the state a specification does not use stay as they start.  *)

PhaseIdle == phaseIn = <<PhasePlanning, PhasePlanning>>
EntityIdle == sess = NewSession("owner", "repo", 1, 0) /\ completedSeen = FALSE
ScenarioIdle == pc = 0
StoreIdle == db = Open /\ loops = <<>> /\ recorded = <<>>
MigrateIdle == mig = NewFile
TicketIdle == tickets = NoTickets
ClientIdle == client = NoClient

-----------------------------------------------------------------------------
(* SpecPhase: the pure phase functions applied to every pair of inputs.     *)

PhaseInit ==
    /\ phaseIn \in PhaseInputs \X PhaseInputs
    /\ now = 0
    /\ ret = NoCall
    /\ EntityIdle /\ ScenarioIdle /\ StoreIdle /\ MigrateIdle
    /\ TicketIdle /\ ClientIdle

PhaseCanTransitionTo ==
    /\ ret' = Called("CanTransitionTo", <<>>, phaseIn, Nil,
                     <<CanTransitionTo(phaseIn[1], phaseIn[2])>>)
    /\ UNCHANGED <<phaseIn, sess, now, completedSeen, pc, db, loops, recorded, mig,
                   tickets, client>>

PhaseValidateTransition ==
    /\ ret' = Called("ValidateTransition", <<>>, phaseIn,
                     ValidateTransition(phaseIn[1], phaseIn[2]), <<>>)
    /\ UNCHANGED <<phaseIn, sess, now, completedSeen, pc, db, loops, recorded, mig,
                   tickets, client>>

PhaseNext == PhaseCanTransitionTo \/ PhaseValidateTransition

SpecPhase == PhaseInit /\ [][PhaseNext]_vars

-----------------------------------------------------------------------------
(* SpecParse: ParsePhase applied to words in several casings, each with     *)
(* and without whitespace around it.                                        *)

ParseWords ==
    { "planning", "Planning", "AWAITING_APPROVAL", "awaiting_approval",
      "implementing", "ImPlEmEnTiNg", "in_review", "In_Review", "revising",
      "REVISING", "completed", "COMPLETED", "error", "Error",
      "", "bogus", "in review", "plan ning", "planning.", "awaiting approval",
      "done", "Completed!" }

ParseLeft == {"", " ", "\t ", "\n"}
ParseRight == {"", " ", " \n", "\r\n"}

ParseInputs == { l \o w \o r : l \in ParseLeft, w \in ParseWords, r \in ParseRight }

ParseInit ==
    /\ ret = NoCall
    /\ now = 0
    /\ PhaseIdle /\ EntityIdle /\ ScenarioIdle /\ StoreIdle /\ MigrateIdle
    /\ TicketIdle /\ ClientIdle

ParseCall ==
    \E input \in ParseInputs :
        LET r == ParsePhase(input)
        IN  /\ ret' = Called("ParsePhase", <<>>, <<input>>, r.err, r.phase)
            /\ UNCHANGED <<phaseIn, sess, now, completedSeen, pc, db, loops,
                           recorded, mig,
                   tickets, client>>

ParseNext == ParseCall

SpecParse == ParseInit /\ [][ParseNext]_vars

-----------------------------------------------------------------------------
(* SpecEntity: one Session built by NewSession and then changed by any      *)
(* sequence of its methods, while the clock advances.                       *)

EntityInit ==
    /\ now = 0
    /\ sess = NewSession("owner", "repo", 1, now)
    /\ ret = NoCall
    /\ completedSeen = FALSE
    /\ PhaseIdle /\ ScenarioIdle /\ StoreIdle /\ MigrateIdle
    /\ TicketIdle /\ ClientIdle

\* The receiver after a method call, with the call recorded.
EntityCall(op, arg, s, err) ==
    /\ sess' = s
    /\ ret' = Called(op, sess, arg, err, <<>>)
    /\ completedSeen' = (completedSeen \/ s.Phase = PhaseCompleted)
    /\ UNCHANGED <<phaseIn, now, pc, db, loops, recorded, mig,
                   tickets, client>>

Tick ==
    /\ now < MaxTime
    /\ now' = now + 1
    /\ UNCHANGED <<phaseIn, sess, ret, completedSeen, pc, db, loops, recorded, mig,
                   tickets, client>>

DoTransitionTo ==
    \E target \in PhaseInputs :
        LET r == TransitionTo(sess, target, now)
        IN  EntityCall("TransitionTo", <<target>>, r.s, r.err)

DoSetPlan ==
    \E plan \in PlanTexts :
        LET r == SetPlan(sess, plan, now)
        IN  EntityCall("SetPlan", <<plan>>, r.s, r.err)

DoApprove ==
    LET r == Approve(sess, now)
    IN  EntityCall("Approve", <<>>, r.s, r.err)

DoSetPRNumber ==
    \E n \in PRNumbers :
        EntityCall("SetPRNumber", <<n>>, SetPRNumber(sess, n, now), Nil)

DoSetError ==
    \E msg \in ErrorTexts :
        LET r == SetError(sess, msg, now)
        IN  EntityCall("SetError", <<msg>>, r.s, r.err)

DoSetContainerID ==
    \E c \in ContainerIDs :
        EntityCall("SetContainerID", <<c>>, SetContainerID(sess, c, now), Nil)

DoClearContainerID ==
    EntityCall("ClearContainerID", <<>>, ClearContainerID(sess, now), Nil)

DoTouch == EntityCall("Touch", <<>>, Touch(sess, now), Nil)

EntityNext ==
    \/ Tick
    \/ DoTransitionTo
    \/ DoSetPlan
    \/ DoApprove
    \/ DoSetPRNumber
    \/ DoSetError
    \/ DoSetContainerID
    \/ DoClearContainerID
    \/ DoTouch

SpecEntity == EntityInit /\ [][EntityNext]_vars

-----------------------------------------------------------------------------
(* SpecLife: a caller builds sessions with NewSession at any time and       *)
(* changes the one it holds through its methods, while the clock advances.  *)

MaxLifeTime == 2

LifeTriples == { <<"a", "c", 1>>, <<"a-b", "b-c", 7>> }

LifeTargets == {PhaseAwaitingApproval, PhaseImplementing, PhasePlanning, "bogus"}

LifeInit ==
    /\ now = 0
    /\ sess = NewSession("owner", "repo", 1, now)
    /\ ret = NoCall
    /\ completedSeen = FALSE
    /\ PhaseIdle /\ ScenarioIdle /\ StoreIdle /\ MigrateIdle
    /\ TicketIdle /\ ClientIdle

LifeTick ==
    /\ now < MaxLifeTime
    /\ now' = now + 1
    /\ UNCHANGED <<phaseIn, sess, ret, completedSeen, pc, db, loops, recorded, mig,
                   tickets, client>>

LifeNewSession ==
    \E t \in LifeTriples :
        EntityCall("NewSession", t, NewSession(t[1], t[2], t[3], now), Nil)

LifeTransitionTo ==
    \E target \in LifeTargets :
        LET r == TransitionTo(sess, target, now)
        IN  EntityCall("TransitionTo", <<target>>, r.s, r.err)

LifeSetPlan ==
    LET r == SetPlan(sess, "plan A", now)
    IN  EntityCall("SetPlan", <<"plan A">>, r.s, r.err)

LifeSetError ==
    LET r == SetError(sess, "boom", now)
    IN  EntityCall("SetError", <<"boom">>, r.s, r.err)

LifeSetPRNumber == EntityCall("SetPRNumber", <<12>>, SetPRNumber(sess, 12, now), Nil)

LifeNext ==
    \/ LifeTick
    \/ LifeNewSession
    \/ LifeTransitionTo
    \/ LifeSetPlan
    \/ DoApprove
    \/ LifeSetPRNumber
    \/ LifeSetError
    \/ DoSetContainerID
    \/ DoClearContainerID
    \/ DoTouch

SpecLife == LifeInit /\ [][LifeNext]_vars

-----------------------------------------------------------------------------
(* SpecScenario: the end-to-end script run on a new session for issue 7,    *)
(* one call per step, while the clock advances.                             *)

ScenarioInit ==
    /\ now = 0
    /\ \E o \in Owners, r \in Repos : sess = NewSession(o, r, 7, now)
    /\ ret = NoCall
    /\ completedSeen = FALSE
    /\ pc = 0
    /\ PhaseIdle /\ StoreIdle /\ MigrateIdle
    /\ TicketIdle /\ ClientIdle

\* Step number `at` of the script: the call is made and the script moves on.
ScenarioCall(at, op, arg, s, err) ==
    /\ pc = at
    /\ pc' = at + 1
    /\ sess' = s
    /\ ret' = Called(op, sess, arg, err, <<>>)
    /\ completedSeen' = (completedSeen \/ s.Phase = PhaseCompleted)
    /\ UNCHANGED <<phaseIn, now, db, loops, recorded, mig,
                   tickets, client>>

ScenarioSetPlan ==
    LET r == SetPlan(sess, "plan A", now)
    IN  ScenarioCall(0, "SetPlan", <<"plan A">>, r.s, r.err)

ScenarioApprove ==
    LET r == Approve(sess, now)
    IN  ScenarioCall(1, "Approve", <<>>, r.s, r.err)

ScenarioToInReview ==
    LET r == TransitionTo(sess, PhaseInReview, now)
    IN  ScenarioCall(2, "TransitionTo", <<PhaseInReview>>, r.s, r.err)

ScenarioToCompleted ==
    LET r == TransitionTo(sess, PhaseCompleted, now)
    IN  ScenarioCall(3, "TransitionTo", <<PhaseCompleted>>, r.s, r.err)

ScenarioToPlanning ==
    LET r == TransitionTo(sess, PhasePlanning, now)
    IN  ScenarioCall(4, "TransitionTo", <<PhasePlanning>>, r.s, r.err)

ScenarioSetError ==
    LET r == SetError(sess, "late failure", now)
    IN  ScenarioCall(5, "SetError", <<"late failure">>, r.s, r.err)

ScenarioNext ==
    \/ Tick
    \/ ScenarioSetPlan
    \/ ScenarioApprove
    \/ ScenarioToInReview
    \/ ScenarioToCompleted
    \/ ScenarioToPlanning
    \/ ScenarioSetError

SpecScenario == ScenarioInit /\ [][ScenarioNext]_vars

-----------------------------------------------------------------------------
(* Session store.  db.sessions is the set of rows of the sessions table,    *)
(* db.events the set of rows of the session_events table and db.seq the     *)
(* last id AUTOINCREMENT gave out; db.foreign_keys is the connection's      *)
(* foreign_keys pragma.  One SQL statement is one atomic step of the single *)
(* connection.  A fault is the error the driver returns when it cannot run  *)
(* the statement (a cancelled context, an I/O error), Nil when it runs it.  *)

Contains(s, substr) ==
    \E i \in 1..(Len(s) - Len(substr) + 1) :
        SubSeq(s, i, i + Len(substr) - 1) = substr

\* Mutant of Validate: the phase is not checked.
ValidateWithoutPhase(s) ==
    IF s.ID = "" THEN Ptr("session ID is required")
    ELSE IF s.RepoOwner = "" THEN Ptr("repository owner is required")
    ELSE IF s.RepoName = "" THEN Ptr("repository name is required")
    ELSE IF s.IssueNumber <= 0 THEN Ptr("issue number must be positive")
    ELSE IF s.Branch = "" THEN Ptr("branch name is required")
    ELSE Nil

Validate(s) ==
    IF s.ID = "" THEN Ptr("session ID is required")
    ELSE IF s.RepoOwner = "" THEN Ptr("repository owner is required")
    ELSE IF s.RepoName = "" THEN Ptr("repository name is required")
    ELSE IF s.IssueNumber <= 0 THEN Ptr("issue number must be positive")
    ELSE IF ~IsValid(s.Phase) THEN Ptr("invalid phase: " \o s.Phase)
    ELSE IF s.Branch = "" THEN Ptr("branch name is required")
    ELSE Nil

\* The column values INSERT binds for a Session.
SessionRow(s) ==
    [ id            |-> s.ID,
      repo_owner    |-> s.RepoOwner,
      repo_name     |-> s.RepoName,
      issue_number  |-> s.IssueNumber,
      pr_number     |-> s.PRNumber,
      phase         |-> s.Phase,
      branch        |-> s.Branch,
      container_id  |-> s.ContainerID,
      plan_content  |-> s.PlanContent,
      error_message |-> s.ErrorMessage,
      created_at    |-> s.CreatedAt,
      last_activity |-> s.LastActivity ]

\* The Session that Scan fills from a row.
ScanSession(row) ==
    [ ID           |-> row.id,
      RepoOwner    |-> row.repo_owner,
      RepoName     |-> row.repo_name,
      IssueNumber  |-> row.issue_number,
      PRNumber     |-> row.pr_number,
      Phase        |-> row.phase,
      Branch       |-> row.branch,
      ContainerID  |-> row.container_id,
      PlanContent  |-> row.plan_content,
      ErrorMessage |-> row.error_message,
      CreatedAt    |-> row.created_at,
      LastActivity |-> row.last_activity ]

\* Mutant of InsertSession: the table has no PRIMARY KEY and no UNIQUE constraint.
InsertSessionUnconstrained(d, row, fault) ==
    IF fault # Nil
    THEN [db |-> d, err |-> fault]
    ELSE [db |-> [d EXCEPT !.sessions = @ \cup {row}], err |-> Nil]

\* Mutant of InsertSession: a conflicting row is replaced (INSERT OR REPLACE).
InsertSessionOrReplace(d, row, fault) ==
    LET old == { r \in d.sessions :
                    \/ r.id = row.id
                    \/ /\ r.repo_owner = row.repo_owner
                       /\ r.repo_name = row.repo_name
                       /\ r.issue_number = row.issue_number }
    IN  IF fault # Nil
        THEN [db |-> d, err |-> fault]
        ELSE [db |-> [d EXCEPT !.sessions = (@ \ old) \cup {row}], err |-> Nil]

\* INSERT INTO sessions under the table's PRIMARY KEY and UNIQUE constraints.
InsertSession(d, row, fault) ==
    IF fault # Nil
    THEN [db |-> d, err |-> fault]
    ELSE IF \E r \in d.sessions : r.id = row.id
    THEN [db |-> d,
          err |-> Ptr("constraint failed: UNIQUE constraint failed: sessions.id (1555)")]
    ELSE IF \E r \in d.sessions :
                /\ r.repo_owner = row.repo_owner
                /\ r.repo_name = row.repo_name
                /\ r.issue_number = row.issue_number
    THEN [db |-> d,
          err |-> Ptr("constraint failed: UNIQUE constraint failed: "
                      \o "sessions.repo_owner, sessions.repo_name, "
                      \o "sessions.issue_number (2067)")]
    ELSE [db |-> [d EXCEPT !.sessions = @ \cup {row}], err |-> Nil]

\* Mutant of Create: INSERT OR REPLACE, which deletes the row in conflict (and
\* with it, by the cascade, its events) before it inserts.
CreateOrReplace(d, s, fault) ==
    LET verr == Validate(s)
        row == SessionRow(s)
        old == { r \in d.sessions :
                    \/ r.id = row.id
                    \/ /\ r.repo_owner = row.repo_owner
                       /\ r.repo_name = row.repo_name
                       /\ r.issue_number = row.issue_number }
    IN  IF verr # Nil
        THEN [db |-> d, err |-> Ptr("invalid session: " \o verr[1])]
        ELSE IF fault # Nil
        THEN [db |-> d, err |-> Ptr("create session: " \o fault[1])]
        ELSE [db |-> [d EXCEPT !.sessions = (@ \ old) \cup {row},
                               !.events = { e \in @ : \A r \in old : e.session_id # r.id }],
              err |-> Nil]

Create(d, s, fault) ==
    LET verr == Validate(s)
        r == InsertSession(d, SessionRow(s), fault)
    IN  IF verr # Nil
        THEN [db |-> d, err |-> Ptr("invalid session: " \o verr[1])]
        ELSE IF r.err # Nil
        THEN IF Contains(r.err[1], "UNIQUE constraint failed")
             THEN [db |-> d,
                   err |-> Ptr("session already exists for " \o s.RepoOwner \o "/"
                               \o s.RepoName \o "#" \o ToString(s.IssueNumber))]
             ELSE [db |-> d, err |-> Ptr("create session: " \o r.err[1])]
        ELSE [db |-> r.db, err |-> Nil]

Get(d, id, fault) ==
    LET rows == { r \in d.sessions : r.id = id }
    IN  IF fault # Nil
        THEN [sess |-> Nil, err |-> Ptr("get session: " \o fault[1])]
        ELSE IF rows = {}
        THEN [sess |-> Nil, err |-> Nil]
        ELSE [sess |-> Ptr(ScanSession(CHOOSE r \in rows : TRUE)), err |-> Nil]

GetByIssue(d, owner, repo, issueNumber, fault) ==
    LET rows == { r \in d.sessions : /\ r.repo_owner = owner
                                     /\ r.repo_name = repo
                                     /\ r.issue_number = issueNumber }
    IN  IF fault # Nil
        THEN [sess |-> Nil, err |-> Ptr("get session by issue: " \o fault[1])]
        ELSE IF rows = {}
        THEN [sess |-> Nil, err |-> Nil]
        ELSE [sess |-> Ptr(ScanSession(CHOOSE r \in rows : TRUE)), err |-> Nil]

\* Mutant of Update: a row that is missing is inserted (an upsert).
UpdateUpsert(d, s, fault) ==
    LET verr == Validate(s)
        hit == { r \in d.sessions : r.id = s.ID }
        set(r) == [r EXCEPT !.pr_number = s.PRNumber,
                            !.phase = s.Phase,
                            !.container_id = s.ContainerID,
                            !.plan_content = s.PlanContent,
                            !.error_message = s.ErrorMessage,
                            !.last_activity = s.LastActivity]
    IN  IF verr # Nil
        THEN [db |-> d, err |-> Ptr("invalid session: " \o verr[1])]
        ELSE IF fault # Nil
        THEN [db |-> d, err |-> Ptr("update session: " \o fault[1])]
        ELSE IF Cardinality(hit) = 0
        THEN [db |-> [d EXCEPT !.sessions = @ \cup {SessionRow(s)}], err |-> Nil]
        ELSE [db |-> [d EXCEPT !.sessions = (@ \ hit) \cup { set(r) : r \in hit }],
              err |-> Nil]

\* Mutant of Update: a nil field keeps the stored value (SET c = COALESCE(?, c)).
UpdateCoalesce(d, s, fault) ==
    LET verr == Validate(s)
        hit == { r \in d.sessions : r.id = s.ID }
        coalesce(v, c) == IF v = Nil THEN c ELSE v
        set(r) == [r EXCEPT !.pr_number = coalesce(s.PRNumber, @),
                            !.phase = s.Phase,
                            !.container_id = coalesce(s.ContainerID, @),
                            !.plan_content = coalesce(s.PlanContent, @),
                            !.error_message = coalesce(s.ErrorMessage, @),
                            !.last_activity = s.LastActivity]
    IN  IF verr # Nil
        THEN [db |-> d, err |-> Ptr("invalid session: " \o verr[1])]
        ELSE IF fault # Nil
        THEN [db |-> d, err |-> Ptr("update session: " \o fault[1])]
        ELSE IF Cardinality(hit) = 0
        THEN [db |-> d, err |-> Ptr("session not found: " \o s.ID)]
        ELSE [db |-> [d EXCEPT !.sessions = (@ \ hit) \cup { set(r) : r \in hit }],
              err |-> Nil]

\* Mutant of Update: the session is validated after the statement has run.
UpdateValidatesLast(d, s, fault) ==
    LET verr == Validate(s)
        hit == { r \in d.sessions : r.id = s.ID }
        set(r) == [r EXCEPT !.pr_number = s.PRNumber,
                            !.phase = s.Phase,
                            !.container_id = s.ContainerID,
                            !.plan_content = s.PlanContent,
                            !.error_message = s.ErrorMessage,
                            !.last_activity = s.LastActivity]
        written == [d EXCEPT !.sessions = (@ \ hit) \cup { set(r) : r \in hit }]
    IN  IF fault # Nil
        THEN [db |-> d, err |-> Ptr("update session: " \o fault[1])]
        ELSE IF Cardinality(hit) = 0
        THEN [db |-> d, err |-> Ptr("session not found: " \o s.ID)]
        ELSE IF verr # Nil
        THEN [db |-> written, err |-> Ptr("invalid session: " \o verr[1])]
        ELSE [db |-> written, err |-> Nil]

Update(d, s, fault) ==
    LET verr == Validate(s)
        hit == { r \in d.sessions : r.id = s.ID }
        set(r) == [r EXCEPT !.pr_number = s.PRNumber,
                            !.phase = s.Phase,
                            !.container_id = s.ContainerID,
                            !.plan_content = s.PlanContent,
                            !.error_message = s.ErrorMessage,
                            !.last_activity = s.LastActivity]
    IN  IF verr # Nil
        THEN [db |-> d, err |-> Ptr("invalid session: " \o verr[1])]
        ELSE IF fault # Nil
        THEN [db |-> d, err |-> Ptr("update session: " \o fault[1])]
        ELSE IF Cardinality(hit) = 0
        THEN [db |-> d, err |-> Ptr("session not found: " \o s.ID)]
        ELSE [db |-> [d EXCEPT !.sessions = (@ \ hit) \cup { set(r) : r \in hit }],
              err |-> Nil]

\* Mutant of Delete: the events of the deleted session stay (no cascade).
DeleteKeepsEvents(d, id, fault) ==
    LET hit == { r \in d.sessions : r.id = id }
    IN  IF fault # Nil
        THEN [db |-> d, err |-> Ptr("delete session: " \o fault[1])]
        ELSE IF Cardinality(hit) = 0
        THEN [db |-> d, err |-> Ptr("session not found: " \o id)]
        ELSE [db |-> [d EXCEPT !.sessions = @ \ hit], err |-> Nil]

\* DELETE FROM sessions WHERE id = ?; with foreign keys on, the rows of
\* session_events that reference a deleted row go with it (ON DELETE CASCADE).
Delete(d, id, fault) ==
    LET hit == { r \in d.sessions : r.id = id }
        cascade == IF d.foreign_keys
                   THEN { e \in d.events : \E r \in hit : e.session_id = r.id }
                   ELSE {}
    IN  IF fault # Nil
        THEN [db |-> d, err |-> Ptr("delete session: " \o fault[1])]
        ELSE IF Cardinality(hit) = 0
        THEN [db |-> d, err |-> Ptr("session not found: " \o id)]
        ELSE [db |-> [d EXCEPT !.sessions = @ \ hit, !.events = @ \ cascade],
              err |-> Nil]

EventTypePhaseChange == "phase_change"
EventTypeCommentPosted == "comment_posted"
EventTypeError == "error"

\* A payload handed to RecordEvent: nil, a string, or a value encoding/json
\* cannot encode (a channel).
PayloadNil == [kind |-> "nil", v |-> ""]
PayloadString(v) == [kind |-> "string", v |-> v]
PayloadChan == [kind |-> "chan", v |-> ""]

\* json.Marshal of a payload (a string is encoded in double quotes).
JSONMarshal(payload) ==
    IF payload.kind = "string"
    THEN [data |-> "\"" \o payload.v \o "\"", err |-> Nil]
    ELSE [data |-> "", err |-> Ptr("json: unsupported type: chan int")]

\* Mutant of InsertEvent: session_id is a plain column, no REFERENCES sessions(id).
InsertEventUnreferenced(d, sessionID, eventType, payloadJSON, t, fault) ==
    IF fault # Nil
    THEN [db |-> d, err |-> fault]
    ELSE [db |-> [d EXCEPT !.seq = @ + 1,
                           !.events = @ \cup {[ id         |-> d.seq + 1,
                                                session_id |-> sessionID,
                                                event_type |-> eventType,
                                                payload    |-> payloadJSON,
                                                created_at |-> t ]}],
          err |-> Nil]

\* INSERT INTO session_events: the id is the next AUTOINCREMENT value, and with
\* foreign keys on session_id must be the id of a row of sessions.
InsertEvent(d, sessionID, eventType, payloadJSON, t, fault) ==
    IF fault # Nil
    THEN [db |-> d, err |-> fault]
    ELSE IF d.foreign_keys /\ ~\E r \in d.sessions : r.id = sessionID
    THEN [db |-> d, err |-> Ptr("constraint failed: FOREIGN KEY constraint failed (787)")]
    ELSE [db |-> [d EXCEPT !.seq = @ + 1,
                           !.events = @ \cup {[ id         |-> d.seq + 1,
                                                session_id |-> sessionID,
                                                event_type |-> eventType,
                                                payload    |-> payloadJSON,
                                                created_at |-> t ]}],
          err |-> Nil]

RecordEvent(d, sessionID, eventType, payload, t, fault) ==
    LET m == IF payload.kind # "nil" THEN JSONMarshal(payload)
                                     ELSE [data |-> "", err |-> Nil]
        r == InsertEvent(d, sessionID, eventType, m.data, t, fault)
    IN  IF m.err # Nil
        THEN [db |-> d, err |-> Ptr("marshal event payload: " \o m.err[1])]
        ELSE IF r.err # Nil
        THEN [db |-> d, err |-> Ptr("record event: " \o r.err[1])]
        ELSE [db |-> r.db, err |-> Nil]

\* The SessionEvent that Scan fills from a row of session_events.
ScanEvent(row) ==
    [ ID        |-> row.id,
      SessionID |-> row.session_id,
      EventType |-> row.event_type,
      Payload   |-> row.payload,
      CreatedAt |-> row.created_at ]

\* The results GetEvents can return: the query orders the rows of the session
\* by created_at alone, so rows with equal created_at come in any order.
GetEvents(d, sessionID, fault) ==
    LET rows == { e \in d.events : e.session_id = sessionID }
        sorted == { q \in Orderings(rows) :
                      \A i \in 1..(Len(q) - 1) : q[i].created_at <= q[i + 1].created_at }
    IN  IF fault # Nil
        THEN { [events |-> <<>>, err |-> Ptr("get events: " \o fault[1])] }
        ELSE { [events |-> [i \in 1..Len(q) |-> ScanEvent(q[i])], err |-> Nil] :
                   q \in sorted }

\* A SessionFilter; Phase is a pointer (Nil when no phase is asked for).
SessionFilter(owner, repo, phase, activeOnly, limit, offset) ==
    [ RepoOwner |-> owner, RepoName |-> repo, Phase |-> phase,
      ActiveOnly |-> activeOnly, Limit |-> limit, Offset |-> offset ]

\* FilterMatches with an active-only condition that excludes completed alone.
FilterMatchesCompletedOnly(filter, row) ==
    /\ filter.RepoOwner # "" => row.repo_owner = filter.RepoOwner
    /\ filter.RepoName # "" => row.repo_name = filter.RepoName
    /\ filter.Phase # Nil => row.phase = filter.Phase[1]
    /\ filter.ActiveOnly => row.phase # PhaseCompleted

\* The WHERE clause List and Count build from a filter.
FilterMatches(filter, row) ==
    /\ filter.RepoOwner # "" => row.repo_owner = filter.RepoOwner
    /\ filter.RepoName # "" => row.repo_name = filter.RepoName
    /\ filter.Phase # Nil => row.phase = filter.Phase[1]
    /\ filter.ActiveOnly => row.phase \notin {PhaseCompleted, PhaseError}

\* List without its ORDER BY: the matching rows in any order.
ListUnordered(d, filter, fault) ==
    LET rows == { r \in d.sessions : FilterMatches(filter, r) }
        page(q) == IF filter.Limit > 0 /\ Len(q) > filter.Limit
                   THEN SubSeq(q, 1, filter.Limit)
                   ELSE q
    IN  { [sessions |-> [i \in 1..Len(page(q)) |-> ScanSession(page(q)[i])],
           err |-> Nil] : q \in Orderings(rows) }

\* The results List can return: the matching rows by last_activity
\* descending (rows with equal last_activity in any order), then LIMIT and
\* OFFSET, which the query carries only when Limit is positive.
List(d, filter, fault) ==
    LET rows == { r \in d.sessions : FilterMatches(filter, r) }
        sorted == { q \in Orderings(rows) :
                      \A i \in 1..(Len(q) - 1) :
                          q[i].last_activity >= q[i + 1].last_activity }
        offset == IF filter.Offset > 0 THEN filter.Offset ELSE 0
        page(q) == IF filter.Limit > 0
                   THEN [i \in 1..(IF Len(q) - offset < filter.Limit
                                    THEN (IF Len(q) > offset THEN Len(q) - offset ELSE 0)
                                    ELSE filter.Limit) |-> q[offset + i]]
                   ELSE q
    IN  IF fault # Nil
        THEN { [sessions |-> <<>>, err |-> Ptr("list sessions: " \o fault[1])] }
        ELSE { [sessions |-> [i \in 1..Len(page(q)) |-> ScanSession(page(q)[i])],
                err |-> Nil] : q \in sorted }

\* Count without the phase and active-only conditions.
CountAnyPhase(d, filter, fault) ==
    [count |-> Cardinality({ r \in d.sessions :
                               /\ filter.RepoOwner # "" => r.repo_owner = filter.RepoOwner
                               /\ filter.RepoName # "" => r.repo_name = filter.RepoName }),
     err |-> Nil]

Count(d, filter, fault) ==
    IF fault # Nil
    THEN [count |-> 0, err |-> Ptr("count sessions: " \o fault[1])]
    ELSE [count |-> Cardinality({ r \in d.sessions : FilterMatches(filter, r) }),
          err |-> Nil]

-----------------------------------------------------------------------------
(* SpecStore: callers make any sequence of store calls.  A session handed   *)
(* to Create is one NewSession built (two of them fail Validate); a session *)
(* handed to Update is a stored or a new session, as it is or after         *)
(* SetPlan or SetError.  The clock stands still in this specification.      *)

Faults == {Nil, Ptr("context canceled")}

CreateInputs(t) ==
    { NewSession(o, r, 1, t) : o \in Owners, r \in Repos }
        \cup { NewSession("", "c", 1, t), NewSession("a", "c", 0, t) }

Mutations(s, t) == {s, SetPlan(s, "plan A", t).s, SetError(s, "boom", t).s}

UpdateInputs(d, t) ==
    UNION { Mutations(s, t) :
                s \in { ScanSession(r) : r \in d.sessions } \cup CreateInputs(t) }

SessionIDs == { s.ID : s \in CreateInputs(0) }

StoreInit ==
    /\ db = Open
    /\ now = 0
    /\ ret = NoCall
    /\ loops = <<>>
    /\ recorded = <<>>
    /\ PhaseIdle /\ EntityIdle /\ ScenarioIdle /\ MigrateIdle
    /\ TicketIdle /\ ClientIdle

StoreCreate ==
    \E s \in CreateInputs(now), fault \in Faults :
        LET r == Create(db, s, fault)
        IN  /\ db' = r.db
            /\ ret' = Called("Create", db, <<s, fault>>, r.err, <<>>)
            /\ UNCHANGED <<phaseIn, sess, now, completedSeen, pc, loops, recorded, mig,
                   tickets, client>>

StoreGet ==
    \E id \in SessionIDs, fault \in Faults :
        LET r == Get(db, id, fault)
        IN  /\ ret' = Called("Get", db, <<id, fault>>, r.err, r.sess)
            /\ UNCHANGED <<phaseIn, sess, now, completedSeen, pc, db, loops, recorded, mig,
                   tickets, client>>

StoreGetByIssue ==
    \E o \in Owners, rp \in Repos, n \in {1, 7}, fault \in Faults :
        LET r == GetByIssue(db, o, rp, n, fault)
        IN  /\ ret' = Called("GetByIssue", db, <<o, rp, n, fault>>, r.err, r.sess)
            /\ UNCHANGED <<phaseIn, sess, now, completedSeen, pc, db, loops, recorded, mig,
                   tickets, client>>

StoreUpdate ==
    \E s \in UpdateInputs(db, now), fault \in Faults :
        LET r == Update(db, s, fault)
        IN  /\ db' = r.db
            /\ ret' = Called("Update", db, <<s, fault>>, r.err, <<>>)
            /\ UNCHANGED <<phaseIn, sess, now, completedSeen, pc, loops, recorded, mig,
                   tickets, client>>

StoreDelete ==
    \E id \in SessionIDs, fault \in Faults :
        LET r == Delete(db, id, fault)
        IN  /\ db' = r.db
            /\ ret' = Called("Delete", db, <<id, fault>>, r.err, <<>>)
            /\ UNCHANGED <<phaseIn, sess, now, completedSeen, pc, loops, recorded, mig,
                   tickets, client>>

StoreNext ==
    \/ StoreCreate
    \/ StoreGet
    \/ StoreGetByIssue
    \/ StoreUpdate
    \/ StoreDelete

SpecStore == StoreInit /\ [][StoreNext]_vars

-----------------------------------------------------------------------------
(* SpecLoops: two orchestration loops against one store.  Each resolves a   *)
(* trigger to a session: it looks the issue up and, finding no session,     *)
(* creates one.  The store runs every statement (no fault).                 *)

Loops == {"L1", "L2"}

LoopsInit ==
    /\ db = Open
    /\ now = 0
    /\ ret = NoCall
    /\ loops = [l \in Loops |-> [pc |-> "start", key |-> <<>>, err |-> Nil]]
    /\ recorded = <<>>
    /\ PhaseIdle /\ EntityIdle /\ ScenarioIdle /\ MigrateIdle
    /\ TicketIdle /\ ClientIdle

LoopLookup ==
    \E l \in Loops, o \in Owners, rp \in Repos, n \in IssueNumbers :
        LET r == GetByIssue(db, o, rp, n, Nil)
        IN  /\ loops[l].pc = "start"
            /\ loops' = [loops EXCEPT ![l] =
                   [pc  |-> IF r.sess = Nil THEN "missing" ELSE "reuse",
                    key |-> <<o, rp, n>>,
                    err |-> r.err]]
            /\ UNCHANGED <<phaseIn, sess, now, ret, completedSeen, pc, db, recorded, mig,
                   tickets, client>>

LoopCreate ==
    \E l \in Loops :
        LET k == loops[l].key
            r == Create(db, NewSession(k[1], k[2], k[3], now), Nil)
        IN  /\ loops[l].pc = "missing"
            /\ db' = r.db
            /\ loops' = [loops EXCEPT ![l] =
                   [pc  |-> IF r.err = Nil THEN "created" ELSE "backoff",
                    key |-> k,
                    err |-> r.err]]
            /\ UNCHANGED <<phaseIn, sess, now, ret, completedSeen, pc, recorded, mig,
                   tickets, client>>

LoopsNext == LoopLookup \/ LoopCreate

SpecLoops == LoopsInit /\ [][LoopsNext]_vars

-----------------------------------------------------------------------------
(* SpecEvents: callers work on two sessions and their event log with every  *)
(* store operation, while the clock advances.  The sessions handed to       *)
(* Create and Update were built when the clock stood at 0 (one fails        *)
(* Validate); a session handed to Update is a stored or a new session after *)
(* SetPRNumber(0), or with a phase that is no phase.  RecordEvent is called *)
(* until MaxEvents ids have been given out.  A fault is tried on one input  *)
(* of each operation.                                                       *)

MaxEvents == 2
MaxEventTime == 1

EventCreateInputs ==
    { NewSession(o, "c", 1, 0) : o \in Owners } \cup { NewSession("a", "c", 0, 0) }

EventSessionIDs == { GenerateSessionID(o, "c", 1) : o \in Owners }

EventUpdateInputs(d) ==
    UNION { { SetPRNumber(s, 0, 0), [s EXCEPT !.Phase = "bogus"] } :
            s \in { ScanSession(r) : r \in d.sessions }
                     \cup { NewSession(o, "c", 1, 0) : o \in Owners } }

\* The RecordEvent calls made: session id, event type, payload.
EventInputs ==
    { <<"a-c-issue-1", EventTypePhaseChange, PayloadNil>>,
      <<"a-c-issue-1", EventTypeError, PayloadString("x")>>,
      <<"a-b-c-issue-1", EventTypePhaseChange, PayloadNil>>,
      <<"a-b-c-issue-1", EventTypeCommentPosted, PayloadChan>> }

EventFilters ==
    { SessionFilter("", "", Nil, FALSE, 0, 0),
      SessionFilter("a", "c", Nil, TRUE, 1, 1) }

\* The fault tried on a call: only the call on the first session can meet one.
EventFaults(id) == IF id = "a-c-issue-1" THEN Faults ELSE {Nil}

\* The history of recorded events without those of the deleted session.
Forget(h, sessionID) ==
    LET keep == { i \in 1..Len(h) : h[i].session_id # sessionID }
        nth(k) == CHOOSE i \in keep : Cardinality({ j \in keep : j <= i }) = k
    IN  [k \in 1..Cardinality(keep) |-> h[nth(k)]]

EventsInit ==
    /\ db = Open
    /\ now = 0
    /\ ret = NoCall
    /\ loops = <<>>
    /\ recorded = <<>>
    /\ PhaseIdle /\ EntityIdle /\ ScenarioIdle /\ MigrateIdle
    /\ TicketIdle /\ ClientIdle

EventsTick ==
    /\ now < MaxEventTime
    /\ now' = now + 1
    /\ UNCHANGED <<phaseIn, sess, ret, completedSeen, pc, db, loops, recorded, mig,
                   tickets, client>>

EventsCreate ==
    \E s \in EventCreateInputs :
        \E fault \in EventFaults(s.ID) :
            LET r == Create(db, s, fault)
            IN  /\ db' = r.db
                /\ ret' = Called("Create", db, <<s, fault>>, r.err, <<>>)
                /\ UNCHANGED <<phaseIn, sess, now, completedSeen, pc, loops, recorded, mig,
                   tickets, client>>

EventsGet ==
    \E id \in EventSessionIDs :
        \E fault \in EventFaults(id) :
            LET r == Get(db, id, fault)
            IN  /\ ret' = Called("Get", db, <<id, fault>>, r.err, r.sess)
                /\ UNCHANGED <<phaseIn, sess, now, completedSeen, pc, db, loops,
                               recorded, mig,
                   tickets, client>>

EventsGetByIssue ==
    \E o \in Owners :
        \E fault \in EventFaults(GenerateSessionID(o, "c", 1)) :
            LET r == GetByIssue(db, o, "c", 1, fault)
            IN  /\ ret' = Called("GetByIssue", db, <<o, "c", 1, fault>>, r.err, r.sess)
                /\ UNCHANGED <<phaseIn, sess, now, completedSeen, pc, db, loops,
                               recorded, mig,
                   tickets, client>>

EventsUpdate ==
    \E s \in EventUpdateInputs(db) :
        \E fault \in EventFaults(s.ID) :
            LET r == Update(db, s, fault)
            IN  /\ db' = r.db
                /\ ret' = Called("Update", db, <<s, fault>>, r.err, <<>>)
                /\ UNCHANGED <<phaseIn, sess, now, completedSeen, pc, loops, recorded, mig,
                   tickets, client>>

EventsDelete ==
    \E id \in EventSessionIDs :
        \E fault \in EventFaults(id) :
            LET r == Delete(db, id, fault)
            IN  /\ db' = r.db
                /\ ret' = Called("Delete", db, <<id, fault>>, r.err, <<>>)
                /\ recorded' = IF r.err = Nil THEN Forget(recorded, id) ELSE recorded
                /\ UNCHANGED <<phaseIn, sess, now, completedSeen, pc, loops, mig,
                   tickets, client>>

EventsList ==
    \E filter \in EventFilters :
        \E fault \in (IF filter.Limit = 0 THEN Faults ELSE {Nil}) :
            \E r \in List(db, filter, fault) :
                /\ ret' = Called("List", db, <<filter, fault>>, r.err, r.sessions)
                /\ UNCHANGED <<phaseIn, sess, now, completedSeen, pc, db, loops,
                               recorded, mig,
                   tickets, client>>

EventsCount ==
    \E filter \in EventFilters :
        \E fault \in (IF filter.Limit = 0 THEN Faults ELSE {Nil}) :
            LET r == Count(db, filter, fault)
            IN  /\ ret' = Called("Count", db, <<filter, fault>>, r.err, <<r.count>>)
                /\ UNCHANGED <<phaseIn, sess, now, completedSeen, pc, db, loops,
                               recorded, mig,
                   tickets, client>>

EventsRecordEvent ==
    \E in \in EventInputs :
        \E fault \in (IF in[3] = PayloadNil THEN EventFaults(in[1]) ELSE {Nil}) :
            LET r == RecordEvent(db, in[1], in[2], in[3], now, fault)
            IN  /\ db.seq < MaxEvents
                /\ db' = r.db
                /\ ret' = Called("RecordEvent", db, <<in[1], in[2], in[3], fault>>,
                                 r.err, <<>>)
                /\ recorded' = IF r.err = Nil
                               THEN Append(recorded, [ session_id |-> in[1],
                                                       event_type |-> in[2],
                                                       payload    |-> in[3],
                                                       at         |-> now ])
                               ELSE recorded
                /\ UNCHANGED <<phaseIn, sess, now, completedSeen, pc, loops, mig,
                   tickets, client>>

EventsGetEvents ==
    \E id \in EventSessionIDs :
        \E fault \in EventFaults(id) :
            \E r \in GetEvents(db, id, fault) :
                /\ ret' = Called("GetEvents", db, <<id, fault>>, r.err, r.events)
                /\ UNCHANGED <<phaseIn, sess, now, completedSeen, pc, db, loops,
                               recorded, mig,
                   tickets, client>>

EventsNext ==
    \/ EventsTick
    \/ EventsCreate
    \/ EventsGet
    \/ EventsGetByIssue
    \/ EventsUpdate
    \/ EventsDelete
    \/ EventsList
    \/ EventsCount
    \/ EventsRecordEvent
    \/ EventsGetEvents

SpecEvents == EventsInit /\ [][EventsNext]_vars

-----------------------------------------------------------------------------
(* SpecRoundTrip: callers create, update, reload and delete the session of  *)
(* one id while the clock advances.  Two triples share the id (a-b/c#1 and  *)
(* a/b-c#1), so an update can carry an owner and a repository other than    *)
(* the stored ones.  A session handed to Update is the stored session or a  *)
(* new one after setters that set, zero or clear its optional fields, or    *)
(* with a phase or a branch that fails Validate.                            *)

RoundTripTriples == { <<"a-b", "c", 1>>, <<"a", "b-c", 1>> }

RoundTripCreateInputs(t) ==
    { NewSession(k[1], k[2], k[3], t) : k \in RoundTripTriples }
        \cup { NewSession("a", "c", 0, t),
               [NewSession("a-b", "c", 1, t) EXCEPT !.Phase = ""] }

RoundTripMutations(s, t) ==
    { SetPRNumber(s, 0, t),
      SetError(SetContainerID(SetPlan(s, "", t).s, "c1", t), "boom", t).s,
      ClearContainerID(s, t),
      [s EXCEPT !.Phase = "bogus"],
      [s EXCEPT !.Branch = ""] }

RoundTripUpdateInputs(d, t) ==
    UNION { RoundTripMutations(s, t) :
            s \in { ScanSession(r) : r \in d.sessions }
                     \cup { NewSession(k[1], k[2], k[3], t) : k \in RoundTripTriples } }

RoundTripInit ==
    /\ db = Open
    /\ now = 0
    /\ ret = NoCall
    /\ loops = <<>>
    /\ recorded = <<>>
    /\ PhaseIdle /\ EntityIdle /\ ScenarioIdle /\ MigrateIdle
    /\ TicketIdle /\ ClientIdle

RoundTripCreate ==
    \E s \in RoundTripCreateInputs(now) :
        LET r == Create(db, s, Nil)
        IN  /\ db' = r.db
            /\ ret' = Called("Create", db, <<s, Nil>>, r.err, <<>>)
            /\ UNCHANGED <<phaseIn, sess, now, completedSeen, pc, loops, recorded, mig,
                   tickets, client>>

RoundTripUpdate ==
    \E s \in RoundTripUpdateInputs(db, now) :
        LET r == Update(db, s, Nil)
        IN  /\ db' = r.db
            /\ ret' = Called("Update", db, <<s, Nil>>, r.err, <<>>)
            /\ UNCHANGED <<phaseIn, sess, now, completedSeen, pc, loops, recorded, mig,
                   tickets, client>>

RoundTripGet ==
    LET r == Get(db, "a-b-c-issue-1", Nil)
    IN  /\ ret' = Called("Get", db, <<"a-b-c-issue-1", Nil>>, r.err, r.sess)
        /\ UNCHANGED <<phaseIn, sess, now, completedSeen, pc, db, loops, recorded, mig,
                   tickets, client>>

RoundTripDelete ==
    LET r == Delete(db, "a-b-c-issue-1", Nil)
    IN  /\ db' = r.db
        /\ ret' = Called("Delete", db, <<"a-b-c-issue-1", Nil>>, r.err, <<>>)
        /\ UNCHANGED <<phaseIn, sess, now, completedSeen, pc, loops, recorded, mig,
                   tickets, client>>

RoundTripNext ==
    \/ Tick
    \/ RoundTripCreate
    \/ RoundTripUpdate
    \/ RoundTripGet
    \/ RoundTripDelete

SpecRoundTrip == RoundTripInit /\ [][RoundTripNext]_vars

-----------------------------------------------------------------------------
(* SpecMigrate: Migrate is run on a new database file, statement by         *)
(* statement.  A run can end at any statement with an error (a cancelled    *)
(* context, an I/O error) and at any point with a crash of the process;     *)
(* the open transaction is then rolled back.  Migrate is run again, up to   *)
(* MaxRuns times.                                                           *)

MaxRuns == 3

MigrateInit ==
    /\ mig = NewFile
    /\ db = Open
    /\ now = 0
    /\ ret = NoCall
    /\ loops = <<>>
    /\ recorded = <<>>
    /\ PhaseIdle /\ EntityIdle /\ ScenarioIdle
    /\ TicketIdle /\ ClientIdle

MigrateFrame ==
    UNCHANGED <<phaseIn, sess, now, ret, completedSeen, pc, db, loops, recorded,
                tickets, client>>

\* db.Migrate(ctx) is called.
MigrateCall ==
    /\ mig.pc = "idle"
    /\ mig.runs < MaxRuns
    /\ mig' = [mig EXCEPT !.pc = "bootstrap", !.runs = @ + 1, !.ended = "none",
                          !.start = [tables |-> mig.tables, versions |-> mig.versions],
                          !.ran = <<>>]
    /\ MigrateFrame

MigrateBootstrap ==
    /\ mig.pc = "bootstrap"
    /\ mig' = [Bootstrap(mig) EXCEPT !.pc = "version"]
    /\ MigrateFrame

MigrateGetVersion ==
    /\ mig.pc = "version"
    /\ mig' = [mig EXCEPT !.currentVersion = CurrentVersion(mig.versions),
                          !.i = 1, !.pc = "loop"]
    /\ MigrateFrame

\* The loop passes over a migration that is not pending.
MigrateSkip ==
    /\ mig.pc = "loop"
    /\ mig.i <= Len(migrations)
    /\ ~Pending(migrations[mig.i], mig.currentVersion)
    /\ mig' = [mig EXCEPT !.i = @ + 1]
    /\ MigrateFrame

\* Migration 3 is recorded as applied, its table being there since the bootstrap.
MigrateRecordOnly ==
    /\ mig.pc = "loop"
    /\ mig.i <= Len(migrations)
    /\ Pending(migrations[mig.i], mig.currentVersion)
    /\ migrations[mig.i].Version = 3
    /\ mig' = IF 3 \in mig.versions
              THEN [mig EXCEPT !.pc = "idle", !.ended = "error"]
              ELSE [RecordApplied(mig, migrations[mig.i]) EXCEPT !.i = @ + 1]
    /\ MigrateFrame

MigrateBeginTx ==
    /\ mig.pc = "loop"
    /\ mig.i <= Len(migrations)
    /\ Pending(migrations[mig.i], mig.currentVersion)
    /\ migrations[mig.i].Version # 3
    /\ mig' = [BeginTx(mig) EXCEPT !.pc = "up"]
    /\ MigrateFrame

MigrateUp ==
    /\ mig.pc = "up"
    /\ mig' = [TxExecUp(mig, migrations[mig.i]) EXCEPT !.pc = "record"]
    /\ MigrateFrame

MigrateRecord ==
    /\ mig.pc = "record"
    /\ mig' = IF migrations[mig.i].Version \in mig.tx[1].versions
              THEN [Rollback(mig) EXCEPT !.pc = "idle", !.ended = "error"]
              ELSE [TxRecord(mig, migrations[mig.i]) EXCEPT !.pc = "commit"]
    /\ MigrateFrame

MigrateCommit ==
    /\ mig.pc = "commit"
    /\ mig' = [Commit(mig, migrations[mig.i]) EXCEPT !.pc = "loop", !.i = @ + 1]
    /\ MigrateFrame

\* The loop is over: runMigrations returns nil.
MigrateReturn ==
    /\ mig.pc = "loop"
    /\ mig.i > Len(migrations)
    /\ mig' = [mig EXCEPT !.pc = "idle", !.ended = "ok"]
    /\ MigrateFrame

\* The statement the run is at fails: the transaction is rolled back and the
\* error returned.
MigrateFault ==
    /\ \/ mig.pc \in {"bootstrap", "version", "up", "record", "commit"}
       \/ /\ mig.pc = "loop"
          /\ mig.i <= Len(migrations)
          /\ Pending(migrations[mig.i], mig.currentVersion)
    /\ mig' = [Rollback(mig) EXCEPT !.pc = "idle", !.ended = "error"]
    /\ MigrateFrame

\* The process dies: the file keeps what was committed.
MigrateCrash ==
    /\ mig.pc # "idle"
    /\ mig' = [Rollback(mig) EXCEPT !.pc = "idle", !.ended = "crash"]
    /\ MigrateFrame

MigrateNext ==
    \/ MigrateCall
    \/ MigrateBootstrap
    \/ MigrateGetVersion
    \/ MigrateSkip
    \/ MigrateRecordOnly
    \/ MigrateBeginTx
    \/ MigrateUp
    \/ MigrateRecord
    \/ MigrateCommit
    \/ MigrateReturn
    \/ MigrateFault
    \/ MigrateCrash

SpecMigrate == MigrateInit /\ [][MigrateNext]_vars

-----------------------------------------------------------------------------
(* SpecList: callers create the sessions of three issues, move them to any  *)
(* phase with Update while the clock advances, and query the store with     *)
(* List and Count.  A session handed to Create was built when the clock     *)
(* stood at 0; a session handed to Update is a stored one touched now, in   *)
(* one of three phases.  Count is asked with the filters that page nothing. *)

MaxListTime == 1

ListTriples == { <<"a", "c", 1>>, <<"a", "c", 7>>, <<"a-b", "c", 1>> }

ListCreateInputs == { NewSession(t[1], t[2], t[3], 0) : t \in ListTriples }

ListPhases == {PhaseInReview, PhaseCompleted, PhaseError}

ListUpdateInputs(d, t) ==
    { [Touch(ScanSession(r), t) EXCEPT !.Phase = p] :
          r \in d.sessions, p \in ListPhases }

ListFilters ==
    { SessionFilter("", "", Nil, FALSE, 0, 0),
      SessionFilter("", "", Nil, TRUE, 0, 0),
      SessionFilter("a", "", Nil, TRUE, 0, 0),
      SessionFilter("a", "c", Ptr(PhaseInReview), FALSE, 0, 0),
      SessionFilter("", "", Ptr(PhaseCompleted), TRUE, 0, 0),
      SessionFilter("", "", Nil, FALSE, 1, 0),
      SessionFilter("", "", Nil, TRUE, 2, 0),
      SessionFilter("", "", Nil, FALSE, 0, 1),
      SessionFilter("", "", Nil, FALSE, 1, 1),
      SessionFilter("", "", Nil, FALSE, 2, 2) }

ListInit ==
    /\ db = Open
    /\ now = 0
    /\ ret = NoCall
    /\ loops = <<>>
    /\ recorded = <<>>
    /\ PhaseIdle /\ EntityIdle /\ ScenarioIdle /\ MigrateIdle
    /\ TicketIdle /\ ClientIdle

ListTick ==
    /\ now < MaxListTime
    /\ now' = now + 1
    /\ UNCHANGED <<phaseIn, sess, ret, completedSeen, pc, db, loops, recorded, mig,
                   tickets, client>>

ListCreate ==
    \E s \in ListCreateInputs :
        LET r == Create(db, s, Nil)
        IN  /\ db' = r.db
            /\ ret' = Called("Create", db, <<s, Nil>>, r.err, <<>>)
            /\ UNCHANGED <<phaseIn, sess, now, completedSeen, pc, loops, recorded, mig,
                   tickets, client>>

ListUpdate ==
    \E s \in ListUpdateInputs(db, now) :
        LET r == Update(db, s, Nil)
        IN  /\ db' = r.db
            /\ ret' = Called("Update", db, <<s, Nil>>, r.err, <<>>)
            /\ UNCHANGED <<phaseIn, sess, now, completedSeen, pc, loops, recorded, mig,
                   tickets, client>>

ListList ==
    \E filter \in ListFilters :
        \E r \in List(db, filter, Nil) :
            /\ ret' = Called("List", db, <<filter, Nil>>, r.err, r.sessions)
            /\ UNCHANGED <<phaseIn, sess, now, completedSeen, pc, db, loops,
                           recorded, mig,
                   tickets, client>>

ListCount ==
    \E filter \in { f \in ListFilters : f.Limit = 0 /\ f.Offset = 0 } :
        LET r == Count(db, filter, Nil)
        IN  /\ ret' = Called("Count", db, <<filter, Nil>>, r.err, <<r.count>>)
            /\ UNCHANGED <<phaseIn, sess, now, completedSeen, pc, db, loops,
                           recorded, mig,
                   tickets, client>>

ListNext ==
    \/ ListTick
    \/ ListCreate
    \/ ListUpdate
    \/ ListList
    \/ ListCount

SpecList == ListInit /\ [][ListNext]_vars

-----------------------------------------------------------------------------
(* SpecTickets: tickets are created and processed, one Process call at a    *)
(* time, while the clock advances.  Process is given the id of a ticket,    *)
(* an id no ticket has, or no id; the runner and the job end in any of      *)
(* their outcomes; the process may be killed while the job runs.  A        *)
(* Process call that returns after the ticket was marked is recorded with   *)
(* the fault its last file write met and, if the job ran, what Run returned.*)

MaxTickets == 2
MaxTicketTime == 1

TicketID(n) == "ticket_" \o ToString(n)

TicketPrompts == {"fix the build", ""}

\* The fault tried on a file write: only a write of the first ticket can fail.
TicketFaults(ticket) ==
    IF ticket # Nil /\ ticket[1].ID = TicketID(1)
    THEN {Nil, Ptr("no space left on device")}
    ELSE {Nil}

\* What runner.Run can return: an error, or the job completed or failed.
RunOutcomes ==
    { [err |-> Ptr("project not found: p"), job |-> Nil],
      [err |-> Nil, job |-> [ID |-> "job_1", Status |-> JobStatusCompleted,
                             CommitMessage |-> "Fix build", Error |-> ""]],
      [err |-> Nil, job |-> [ID |-> "job_1", Status |-> JobStatusFailed,
                             CommitMessage |-> "", Error |-> "exit status 1"]] }

TicketsInit ==
    /\ tickets = NoTickets
    /\ now = 0
    /\ ret = NoCall
    /\ PhaseIdle /\ EntityIdle /\ ScenarioIdle /\ StoreIdle /\ MigrateIdle
    /\ ClientIdle

TicketsFrame ==
    UNCHANGED <<phaseIn, sess, now, completedSeen, pc, db, loops, recorded, mig,
                client>>

TicketsTick ==
    /\ now < MaxTicketTime
    /\ now' = now + 1
    /\ UNCHANGED <<phaseIn, sess, ret, completedSeen, pc, db, loops, recorded, mig,
                   tickets, client>>

\* ticket new: Create with a new id.
TicketsCreate ==
    \E prompt \in TicketPrompts :
        LET id == TicketID(tickets.next + 1)
            r == FileStoreCreate(tickets.files, id, prompt, now, Nil)
        IN  /\ tickets.next < MaxTickets
            /\ tickets' = [tickets EXCEPT !.files = r.files, !.next = @ + 1]
            /\ ret' = Called("Create", tickets, <<prompt>>, r.err, r.ticket)
            /\ TicketsFrame

\* ticket process <project> [ticket-id], up to the start of the job.
TicketsProcess ==
    \E ticketID \in { TicketID(n) : n \in 1..MaxTickets } \cup {""} :
        \E found \in (IF ticketID # ""
                      THEN {FileStoreGet(tickets.files, ticketID)}
                      ELSE NextPending(tickets.files)) :
            \E fault \in TicketFaults(found) :
                LET r == ProcessBegin(tickets, ticketID, found, fault)
                IN  /\ tickets.pc = "idle"
                    /\ tickets' = r.k
                    /\ ret' = Called(IF r.k.pc = "marked" THEN "Process.mark"
                                                          ELSE "Process",
                                     tickets, <<ticketID>>, r.err, r.ticket)
                    /\ TicketsFrame

\* job.NewRunner returns the runner: the job starts.
TicketsRunnerCreated ==
    /\ tickets.pc = "marked"
    /\ tickets' = [tickets EXCEPT !.pc = "running"]
    /\ ret' = Called("Process.run", tickets, ret.arg, Nil, tickets.ticket)
    /\ TicketsFrame

\* job.NewRunner fails.
TicketsRunnerFailed ==
    \E fault \in TicketFaults(tickets.ticket) :
        LET r == ProcessRunnerFailed(tickets, "docker not available", fault)
        IN  /\ tickets.pc = "marked"
            /\ tickets' = r.k
            /\ ret' = Called("Process", tickets, <<ret.arg[1], fault>>, r.err, r.ticket)
            /\ TicketsFrame

\* runner.Run returns and Process saves the result.
TicketsJobReturns ==
    \E run \in RunOutcomes :
        \E fault \in TicketFaults(tickets.ticket) :
            LET r == ProcessFinish(tickets, run, fault)
            IN  /\ tickets.pc = "running"
                /\ tickets' = r.k
                /\ ret' = Called("Process", tickets, <<ret.arg[1], fault, run>>,
                                 r.err, r.ticket)
                /\ TicketsFrame

\* The process is killed before Process returns.
TicketsKilled ==
    /\ tickets.pc \in {"marked", "running"}
    /\ tickets' = [tickets EXCEPT !.pc = "idle", !.ticket = Nil]
    /\ ret' = Called("killed", tickets, ret.arg, Nil, Nil)
    /\ TicketsFrame

TicketsNext ==
    \/ TicketsTick
    \/ TicketsCreate
    \/ TicketsProcess
    \/ TicketsRunnerCreated
    \/ TicketsRunnerFailed
    \/ TicketsJobReturns
    \/ TicketsKilled

SpecTickets == TicketsInit /\ [][TicketsNext]_vars

-----------------------------------------------------------------------------
(* SpecClient: one caller makes requests through a client, one after the    *)
(* other, while the clock advances; the server answers each request it      *)
(* gets with any of the responses, or the transport fails.  The client was  *)
(* built with a rate-limit buffer of 0 or 1.                                *)

MaxCalls == 3
MaxClientTime == 3

RateLimitBuffers == {0, 1}

Responses ==
    { [status |-> 200, limit |-> "5", remaining |-> r, reset |-> t] :
          r \in {"0", "1", "2"}, t \in {"1", "2", "3"} }
        \cup { [status |-> 200, limit |-> "", remaining |-> "0", reset |-> "3"],
               [status |-> 200, limit |-> "5", remaining |-> "", reset |-> "3"],
               [status |-> 200, limit |-> "5", remaining |-> "0", reset |-> ""],
               [status |-> 200, limit |-> "5", remaining |-> "many", reset |-> "3"],
               [status |-> 200, limit |-> "5", remaining |-> "10", reset |-> "soon"],
               [status |-> 403, limit |-> "5", remaining |-> "0", reset |-> "2"] }

ClientInit ==
    /\ client \in { [c |-> NewClient(n), calls |-> 0, low |-> {}] :
                        n \in RateLimitBuffers }
    /\ now = 0
    /\ ret = NoCall
    /\ PhaseIdle /\ EntityIdle /\ ScenarioIdle /\ StoreIdle /\ MigrateIdle
    /\ TicketIdle

ClientFrame ==
    UNCHANGED <<phaseIn, sess, now, completedSeen, pc, db, loops, recorded, mig,
                tickets>>

ClientTick ==
    /\ now < MaxClientTime
    /\ now' = now + 1
    /\ UNCHANGED <<phaseIn, sess, ret, completedSeen, pc, db, loops, recorded, mig,
                   tickets, client>>

\* do stops at the rate-limit check: no request is made.
ClientDoLimited ==
    LET err == CheckRateLimit(client.c, now)
    IN  /\ err # Nil
        /\ ret' = Called("do", client, <<>>, err, FALSE)
        /\ UNCHANGED client
        /\ ClientFrame

\* do passes the check and makes the request; the transport fails.
ClientDoFailed ==
    LET r == DoRequest(client.c, Ptr("connection refused"), Nil)
    IN  /\ CheckRateLimit(client.c, now) = Nil
        /\ client.calls < MaxCalls
        /\ client' = [client EXCEPT !.c = r.c, !.calls = @ + 1]
        /\ ret' = Called("do", client, <<>>, r.err, TRUE)
        /\ ClientFrame

\* do passes the check, makes the request and reads the response.  low
\* records the reset times of the responses that reported no more requests
\* remaining than the buffer, with the reset still to come.
ClientDoAnswered ==
    \E resp \in Responses :
        LET r == DoRequest(client.c, Nil, resp)
            reported == /\ resp.limit # "" /\ resp.remaining # "" /\ resp.reset # ""
                        /\ Atoi(resp.remaining) <= client.c.rateLimitBuf
                        /\ Atoi(resp.reset) > now
        IN  /\ CheckRateLimit(client.c, now) = Nil
            /\ client.calls < MaxCalls
            /\ client' = [client EXCEPT !.c = r.c, !.calls = @ + 1,
                                        !.low = IF reported
                                                THEN @ \cup {Atoi(resp.reset)}
                                                ELSE @]
            /\ ret' = Called("do", client, <<resp>>, r.err, TRUE)
            /\ ClientFrame

ClientNext ==
    \/ ClientTick
    \/ ClientDoLimited
    \/ ClientDoFailed
    \/ ClientDoAnswered

SpecClient == ClientInit /\ [][ClientNext]_vars

-----------------------------------------------------------------------------
(* SpecWalk: one session moved along the transition table by TransitionTo   *)
(* and Approve while the clock stands still; recorded holds the phases the  *)
(* session has been in, oldest first.                                       *)

MaxWalk == 7

WalkInit ==
    /\ now = 0
    /\ sess = NewSession("owner", "repo", 1, now)
    /\ ret = NoCall
    /\ completedSeen = FALSE
    /\ db = Open /\ loops = <<>>
    /\ recorded = <<sess.Phase>>
    /\ PhaseIdle /\ ScenarioIdle /\ MigrateIdle /\ TicketIdle /\ ClientIdle

\* The receiver after a call that may have moved the phase.
WalkCall(op, arg, r) ==
    /\ Len(recorded) <= MaxWalk
    /\ sess' = r.s
    /\ ret' = Called(op, sess, arg, r.err, <<>>)
    /\ completedSeen' = (completedSeen \/ r.s.Phase = PhaseCompleted)
    /\ recorded' = IF r.err = Nil THEN Append(recorded, r.s.Phase) ELSE recorded
    /\ UNCHANGED <<phaseIn, now, pc, db, loops, mig, tickets, client>>

WalkTransitionTo ==
    \E target \in PhaseInputs :
        WalkCall("TransitionTo", <<target>>, TransitionTo(sess, target, now))

WalkApprove == WalkCall("Approve", <<>>, Approve(sess, now))

WalkNext ==
    \/ WalkTransitionTo
    \/ WalkApprove

SpecWalk == WalkInit /\ [][WalkNext]_vars

-----------------------------------------------------------------------------
(* SpecCallers: two callers work on the one stored session.  Each loads it  *)
(* with Get, changes its own copy by one entity operation, writes the copy  *)
(* back with Update, and goes on with the copy it holds or loads again.     *)
(* The store runs every statement (no fault) and the clock stands still.    *)
(* recorded holds the phases the row has had, oldest first; base is the     *)
(* phase the row had when the caller last read or wrote it.                 *)

MaxUpdates == 3

Callers == {"A", "B"}

CallerSession == NewSession("a", "c", 1, 0)

StoredPhase(d) == (CHOOSE r \in d.sessions : r.id = CallerSession.ID).phase

CallersInit ==
    /\ now = 0
    /\ db = Create(Open, CallerSession, Nil).db
    /\ ret = NoCall
    /\ loops = [c \in Callers |-> [pc |-> "start", copy |-> Nil, base |-> Nil]]
    /\ recorded = <<StoredPhase(db)>>
    /\ PhaseIdle /\ EntityIdle /\ ScenarioIdle /\ MigrateIdle
    /\ TicketIdle /\ ClientIdle

CallerGet ==
    \E c \in Callers :
        LET r == Get(db, CallerSession.ID, Nil)
        IN  /\ loops[c].pc \in {"start", "loaded"}
            /\ loops' = [loops EXCEPT ![c] =
                   [pc |-> "loaded", copy |-> r.sess, base |-> Ptr(r.sess[1].Phase)]]
            /\ ret' = Called("Get", db, <<c>>, r.err, r.sess)
            /\ UNCHANGED <<phaseIn, sess, now, completedSeen, pc, db, recorded, mig,
                           tickets, client>>

\* The caller's copy after one entity operation; a rejected operation leaves
\* the copy as it is and the caller with nothing to write.
CallerChanged(c, op, arg, r) ==
    /\ loops[c].pc = "loaded"
    /\ loops' = [loops EXCEPT ![c].copy = Ptr(r.s),
                              ![c].pc = IF r.err = Nil THEN "changed" ELSE "loaded"]
    /\ ret' = Called(op, loops[c].copy[1], arg, r.err, <<c>>)
    /\ UNCHANGED <<phaseIn, sess, now, completedSeen, pc, db, recorded, mig,
                   tickets, client>>

CallerTransitionTo ==
    \E c \in Callers, target \in {PhasePlanning, PhaseInReview, PhaseCompleted} :
        /\ loops[c].copy # Nil
        /\ CallerChanged(c, "TransitionTo", <<target>>,
                         TransitionTo(loops[c].copy[1], target, now))

CallerSetPlan ==
    \E c \in Callers :
        /\ loops[c].copy # Nil
        /\ CallerChanged(c, "SetPlan", <<"plan A">>, SetPlan(loops[c].copy[1], "plan A", now))

CallerApprove ==
    \E c \in Callers :
        /\ loops[c].copy # Nil
        /\ CallerChanged(c, "Approve", <<>>, Approve(loops[c].copy[1], now))

CallerSetError ==
    \E c \in Callers :
        /\ loops[c].copy # Nil
        /\ CallerChanged(c, "SetError", <<"boom">>, SetError(loops[c].copy[1], "boom", now))

CallerUpdate ==
    \E c \in Callers :
        LET r == Update(db, loops[c].copy[1], Nil)
        IN  /\ loops[c].pc = "changed"
            /\ Len(recorded) <= MaxUpdates
            /\ db' = r.db
            /\ recorded' = Append(recorded, StoredPhase(r.db))
            /\ loops' = [loops EXCEPT ![c].pc = "loaded",
                                      ![c].base = Ptr(StoredPhase(r.db))]
            /\ ret' = Called("Update", db, <<c, loops[c].copy[1], loops[c].base[1]>>,
                             r.err, <<>>)
            /\ UNCHANGED <<phaseIn, sess, now, completedSeen, pc, mig, tickets, client>>

CallersNext ==
    \/ CallerGet
    \/ CallerTransitionTo
    \/ CallerSetPlan
    \/ CallerApprove
    \/ CallerSetError
    \/ CallerUpdate

SpecCallers == CallersInit /\ [][CallersNext]_vars

-----------------------------------------------------------------------------
(* SpecProcessors: two `ticket process` commands run Process on the tickets  *)
(* of one project at the same time.  Every access to the file system is a    *)
(* step of its own: Update is findTicketStatus, then os.Remove of the old    *)
(* file, then the write of the new one, which can fail for the first ticket. *)
(* A command can be killed at any step; a new command can then be started,   *)
(* until MaxProcessCalls calls have been made.  started holds, as history,   *)
(* the tickets for which a runner was started, in the order of the starts.   *)

MaxProcessCalls == 2

Processors == {"P1", "P2"}

ProcIdle == [pc |-> "idle", ticket |-> Nil, old |-> Nil, then |-> "return"]

ProcessorsInit ==
    /\ now = 0
    /\ ret = NoCall
    /\ tickets =
           [ files   |-> FileStoreCreate({}, TicketID(1), "fix the build", now, Nil).files,
             procs   |-> [p \in Processors |-> ProcIdle],
             calls   |-> 0,
             started |-> <<>> ]
    /\ PhaseIdle /\ EntityIdle /\ ScenarioIdle /\ StoreIdle /\ MigrateIdle
    /\ ClientIdle

\* A step of the processor p: its record and the files after the step.
ProcStep(p, op, proc, files, err) ==
    /\ tickets' = [tickets EXCEPT !.procs[p] = proc, !.files = files]
    /\ ret' = Called(op, tickets, <<p>>, err, proc.ticket)
    /\ TicketsFrame

\* Process starts: the ticket is looked up and checked, and its status is set
\* to in_progress in memory; Update is called next.
ProcProcess ==
    \E p \in Processors, ticketID \in {TicketID(1), ""} :
        \E found \in (IF ticketID # ""
                      THEN {FileStoreGet(tickets.files, ticketID)}
                      ELSE NextPending(tickets.files)) :
            LET err == IF found = Nil
                       THEN IF ticketID # ""
                            THEN Ptr("ticket not found: " \o ticketID)
                            ELSE Nil
                       ELSE ProcessCheck(found[1])
                go == found # Nil /\ err = Nil
                proc == IF go
                        THEN [pc |-> "update",
                              ticket |-> Ptr([found[1] EXCEPT !.Status = StatusInProgress]),
                              old |-> Nil, then |-> "marked"]
                        ELSE ProcIdle
            IN  /\ tickets.procs[p].pc = "idle"
                /\ tickets.calls < MaxProcessCalls
                /\ tickets' = [tickets EXCEPT !.procs[p] = proc, !.calls = @ + 1]
                /\ ret' = Called(IF go THEN "Process.check" ELSE "Process",
                                 tickets, <<p, ticketID>>, err, proc.ticket)
                /\ TicketsFrame

\* Update, first step: findTicketStatus looks for the file of the ticket.
ProcFindStatus ==
    \E p \in Processors :
        LET proc == tickets.procs[p]
        IN  /\ proc.pc = "update"
            /\ ProcStep(p, "Update.find",
                        [proc EXCEPT !.pc = "remove",
                                     !.old = FindTicketStatus(tickets.files,
                                                              proc.ticket[1].ID)],
                        tickets.files, Nil)

\* Update, second step: the file under the old status is removed when the
\* status has changed.
ProcRemoveOld ==
    \E p \in Processors :
        LET proc == tickets.procs[p]
            changed == proc.old # Nil /\ proc.old[1] # proc.ticket[1].Status
        IN  /\ proc.pc = "remove"
            /\ ProcStep(p, "Update.remove", [proc EXCEPT !.pc = "write"],
                        IF changed
                        THEN RemoveFile(tickets.files, proc.old[1], proc.ticket[1].ID)
                        ELSE tickets.files,
                        Nil)

\* Update, last step: saveTicket writes the file under the new status.  The
\* Update that marks the ticket decides whether Process goes on; after any
\* other Update Process returns.
ProcWrite ==
    \E p \in Processors :
        \E fault \in TicketFaults(tickets.procs[p].ticket) :
            LET proc == tickets.procs[p]
                w == SaveTicket(tickets.files, proc.ticket[1], fault)
            IN  /\ proc.pc = "write"
                /\ ProcStep(p, IF proc.then = "marked" /\ w.err = Nil
                               THEN "Process.mark" ELSE "Process",
                            IF proc.then = "marked" /\ w.err = Nil
                            THEN [proc EXCEPT !.pc = "marked", !.old = Nil]
                            ELSE ProcIdle,
                            w.files, w.err)

\* job.NewRunner returns the runner and runner.Run starts the job.
ProcRunnerCreated ==
    \E p \in Processors :
        LET proc == tickets.procs[p]
        IN  /\ proc.pc = "marked"
            /\ tickets' = [tickets EXCEPT !.procs[p].pc = "running",
                                          !.started = Append(@, proc.ticket[1].ID)]
            /\ ret' = Called("Process.run", tickets, <<p>>, Nil, proc.ticket)
            /\ TicketsFrame

\* job.NewRunner fails: the ticket gets status error and Update is called.
ProcRunnerFailed ==
    \E p \in Processors :
        LET proc == tickets.procs[p]
            ticket == AddEntry([proc.ticket[1] EXCEPT !.Status = StatusError],
                               EntryTypeComment, "manfred",
                               "Failed to create job runner: docker not available")
        IN  /\ proc.pc = "marked"
            /\ ProcStep(p, "Process.norunner",
                        [proc EXCEPT !.pc = "update", !.ticket = Ptr(ticket),
                                     !.then = "return"],
                        tickets.files, Nil)

\* runner.Run returns: the ticket gets the status of the outcome and Update
\* is called.
ProcJobReturns ==
    \E p \in Processors, run \in RunOutcomes :
        LET proc == tickets.procs[p]
            k == [files |-> {}, pc |-> "running", ticket |-> proc.ticket]
            ticket == ProcessFinish(k, run, Nil).ticket
        IN  /\ proc.pc = "running"
            /\ ProcStep(p, "Process.ran",
                        [proc EXCEPT !.pc = "update", !.ticket = ticket,
                                     !.then = "return"],
                        tickets.files, Nil)

\* The command is killed.
ProcKilled ==
    \E p \in Processors :
        /\ tickets.procs[p].pc # "idle"
        /\ ProcStep(p, "killed", ProcIdle, tickets.files, Nil)

ProcessorsNext ==
    \/ ProcProcess
    \/ ProcFindStatus
    \/ ProcRemoveOld
    \/ ProcWrite
    \/ ProcRunnerCreated
    \/ ProcRunnerFailed
    \/ ProcJobReturns
    \/ ProcKilled

SpecProcessors == ProcessorsInit /\ [][ProcessorsNext]_vars

-----------------------------------------------------------------------------
(* SpecRunner: Runner.Run is called for a project, one call at a time,      *)
(* while the clock advances.  The project exists or not, the job            *)
(* directories can be created or not, executeJob returns nil or an error,   *)
(* and ComposeDown succeeds or fails.  ret holds the call in progress: the  *)
(* job built so far and the error of executeJob; pc is the position of Run; *)
(* recorded holds the steps of all runs: the call, each status the job got, *)
(* the return of executeJob, each ComposeDown, and the return.              *)

MaxJobs == 2
MaxJobTime == 1

JobProjects == {"p", "q"}

\* What executeJob can leave behind: its error and the commit message read.
ExecuteOutcomes ==
    { [err |-> Nil, msg |-> "Fix build"],
      [err |-> Nil, msg |-> ""],
      [err |-> Ptr("failed to start compose: exit status 1"), msg |-> ""],
      [err |-> Ptr("claude execution failed: exit status 1"), msg |-> ""] }

Step(run, ev, err) == [run |-> run, ev |-> ev, err |-> err]

RunsCalled == Cardinality({ i \in 1..Len(recorded) : recorded[i].ev = "call" })

RunnerInit ==
    /\ now = 0
    /\ ret = NoCall
    /\ pc = "idle"
    /\ recorded = <<>>
    /\ db = Open /\ loops = <<>>
    /\ PhaseIdle /\ EntityIdle /\ MigrateIdle /\ TicketIdle /\ ClientIdle

RunnerFrame ==
    UNCHANGED <<phaseIn, sess, now, completedSeen, db, loops, mig, tickets, client>>

RunnerTick ==
    /\ now < MaxJobTime
    /\ now' = now + 1
    /\ UNCHANGED <<phaseIn, sess, ret, completedSeen, pc, db, loops, recorded, mig,
                   tickets, client>>

\* Run up to job.Start: the project is validated, the job made and its
\* directories created.
RunnerRun ==
    \E project \in JobProjects, mkdir \in {Nil, Ptr("permission denied")} :
        LET n == RunsCalled + 1
            arg == <<project, "fix the build">>
            verr == ValidateProject(project)
            job == JobNew("job_" \o ToString(n), project, "fix the build", now)
        IN  /\ pc = "idle"
            /\ RunsCalled < MaxJobs
            /\ IF verr # Nil
               THEN /\ ret' = Called("Run", Nil, arg, verr, Nil)
                    /\ recorded' = recorded \o <<Step(n, "call", Nil), Step(n, "return", verr)>>
                    /\ pc' = "idle"
               ELSE IF mkdir # Nil
               THEN /\ ret' = Called("Run", Nil, arg,
                                     Ptr("failed to create job directories: " \o mkdir[1]),
                                     Nil)
                    /\ recorded' = recorded \o
                           << Step(n, "call", Nil), Step(n, JobStatusPending, Nil),
                              Step(n, "return", ret'.err) >>
                    /\ pc' = "idle"
               ELSE /\ ret' = Called("Run.start", Ptr(job), arg, Nil, Ptr(JobStart(job, now)))
                    /\ recorded' = recorded \o
                           << Step(n, "call", Nil), Step(n, JobStatusPending, Nil),
                              Step(n, JobStatusRunning, Nil) >>
                    /\ pc' = "started"
            /\ RunnerFrame

\* executeJob returns.
RunnerExecuted ==
    \E o \in ExecuteOutcomes :
        /\ pc = "started"
        /\ ret' = Called("Run.execute", ret.out, ret.arg, o.err,
                         Ptr([ret.out[1] EXCEPT !.CommitMessage = o.msg]))
        /\ recorded' = Append(recorded, Step(RunsCalled, "executed", o.err))
        /\ pc' = "executed"
        /\ RunnerFrame

\* The cleanup: ComposeDown is called and its error is logged as a warning.
RunnerCleanup ==
    \E cleanupErr \in {Nil, Ptr("exit status 1")} :
        LET calls == RunCleanup(ret.err)
        IN  /\ pc = "executed"
            /\ ret' = Called("Run.cleanup", ret.out, ret.arg, ret.err, ret.out)
            /\ recorded' = recorded \o
                   [i \in 1..Len(calls) |-> Step(RunsCalled, calls[i], cleanupErr)]
            /\ pc' = "cleaned"
            /\ RunnerFrame

\* The job fails or completes and Run returns it.
RunnerReturn ==
    LET job == RunFinish(ret.out[1], ret.err, now)
    IN  /\ pc = "cleaned"
        /\ ret' = Called("Run", ret.out, ret.arg, Nil, Ptr(job))
        /\ recorded' = recorded \o
               <<Step(RunsCalled, job.Status, ret.err), Step(RunsCalled, "return", Nil)>>
        /\ pc' = "idle"
        /\ RunnerFrame

RunnerNext ==
    \/ RunnerTick
    \/ RunnerRun
    \/ RunnerExecuted
    \/ RunnerCleanup
    \/ RunnerReturn

SpecRunner == RunnerInit /\ [][RunnerNext]_vars

-----------------------------------------------------------------------------
(* Claims about the phase state machine and the Session entity              *)

\* The 13 edges of the transition table, as the table lists them.
TableEdges ==
    { <<"planning", "awaiting_approval">>, <<"planning", "error">>,
      <<"awaiting_approval", "planning">>, <<"awaiting_approval", "implementing">>,
      <<"awaiting_approval", "error">>,
      <<"implementing", "in_review">>, <<"implementing", "error">>,
      <<"in_review", "revising">>, <<"in_review", "completed">>,
      <<"in_review", "error">>,
      <<"revising", "in_review">>, <<"revising", "error">>,
      <<"error", "planning">> }

\* C1: canTransition(from, to) is true exactly on the 13 edges of the table,
\* and validateTransition(from, to) succeeds exactly on them and otherwise
\* returns a TransitionError carrying that same from and to.
C1_TransitionTable ==
    /\ Cardinality(TableEdges) = 13
    /\ ret.op = "CanTransitionTo" => ret.out = <<ret.arg \in TableEdges>>
    /\ ret.op = "ValidateTransition" =>
           ret.err = IF ret.arg \in TableEdges
                     THEN Nil
                     ELSE <<[From |-> ret.arg[1], To |-> ret.arg[2]]>>

\* C1 witness: validateTransition was applied to a pair outside the table.
C1_Witness ==
    /\ ret.op = "ValidateTransition"
    /\ ret.arg = <<"implementing", "completed">>
    /\ ret.err # Nil

\* C2: transitionTo(target) on a legal edge sets the phase to target and
\* lastActivity to the current time; otherwise it returns a TransitionError
\* and leaves every field of the session unchanged.
C2_TransitionToAtomic ==
    ret.op = "TransitionTo" =>
        LET from == ret.pre.Phase
            target == ret.arg[1]
        IN  IF <<from, target>> \in TableEdges
            THEN /\ ret.err = Nil
                 /\ sess.Phase = target
                 /\ sess.LastActivity = ret.at
            ELSE /\ ret.err = <<[From |-> from, To |-> target]>>
                 /\ sess = ret.pre

\* C2 witness: a transitionTo was rejected on a session that carries a plan
\* and a PR number and was last active before the call.
C2_Witness ==
    /\ ret.op = "TransitionTo"
    /\ ret.err # Nil
    /\ ret.pre.PlanContent # Nil
    /\ ret.pre.PRNumber # Nil
    /\ ret.pre.LastActivity < ret.at

\* C3: setError(msg) never fails: from every phase it returns no error and
\* leaves phase = error, errorText = msg and lastActivity = the current time.
C3_SetErrorNeverFails ==
    ret.op = "SetError" =>
        /\ ret.err = Nil
        /\ sess.Phase = "error"
        /\ sess.ErrorMessage = <<ret.arg[1]>>
        /\ sess.LastActivity = ret.at

\* C3 witness: setError was called on a completed session.
C3_Witness ==
    /\ ret.op = "SetError"
    /\ ret.pre.Phase = "completed"
    /\ sess.Phase = "error"

\* C6: setPlan(text) succeeds exactly from planning (the only phase from
\* which awaiting_approval is a legal target), leaving phase =
\* awaiting_approval and planText = text; otherwise it returns a
\* TransitionError and phase and planText keep their prior values.
C6_SetPlanGated ==
    ret.op = "SetPlan" =>
        LET from == ret.pre.Phase
        IN  /\ (from = "planning") <=> (<<from, "awaiting_approval">> \in TableEdges)
            /\ IF from = "planning"
               THEN /\ ret.err = Nil
                    /\ sess.Phase = "awaiting_approval"
                    /\ sess.PlanContent = <<ret.arg[1]>>
               ELSE /\ ret.err = <<[From |-> from, To |-> "awaiting_approval"]>>
                    /\ sess.Phase = from
                    /\ sess.PlanContent = ret.pre.PlanContent

\* C6 witness: setPlan with another text was rejected on an implementing
\* session, which still holds its earlier plan.
C6_Witness ==
    /\ ret.op = "SetPlan"
    /\ ret.pre.Phase = "implementing"
    /\ ret.arg = <<"plan A">>
    /\ ret.err # Nil
    /\ sess.PlanContent = <<"do X">>

\* C7: approve() succeeds only from awaiting_approval, moving the session to
\* implementing; in every other phase it fails with
\* TransitionError{current phase, implementing} and leaves the session
\* unchanged.
C7_ApproveGated ==
    ret.op = "Approve" =>
        IF ret.pre.Phase = "awaiting_approval"
        THEN /\ ret.err = Nil
             /\ sess.Phase = "implementing"
        ELSE /\ ret.err = <<[From |-> ret.pre.Phase, To |-> "implementing"]>>
             /\ sess = ret.pre

\* C7 witness: approve was rejected on a planning session that never had a plan.
C7_Witness ==
    /\ ret.op = "Approve"
    /\ ret.pre.Phase = "planning"
    /\ ret.err = <<[From |-> "planning", To |-> "implementing"]>>
    /\ sess.PlanContent = Nil

\* C8: completed has no way back: once the session has been completed, no
\* sequence of entity operations brings it to a non-terminal phase.
C8_CompletedNoWayBack ==
    completedSeen => sess.Phase \in {"completed", "error"}

\* C9: the scenario on a new session for issue 7: setPlan("plan A"),
\* approve(), transitionTo(in_review), transitionTo(completed) succeed in
\* turn with planText = "plan A" throughout; transitionTo(planning) then
\* fails and leaves phase completed; setError("late failure") then succeeds
\* and leaves phase = error.
C9_Scenario ==
    /\ sess.IssueNumber = 7
    /\ pc \in 1..4 => ret.err = Nil /\ sess.PlanContent = <<"plan A">>
    /\ pc = 1 => sess.Phase = "awaiting_approval"
    /\ pc = 2 => sess.Phase = "implementing"
    /\ pc = 3 => sess.Phase = "in_review"
    /\ pc = 4 => sess.Phase = "completed"
    /\ pc = 5 => ret.err # Nil /\ sess.Phase = "completed"
    /\ pc = 6 => ret.err = Nil /\ sess.Phase = "error"

\* C9 witness: the script has run to its end.
C9_Witness == pc = 6 /\ ret.op = "SetError" /\ ret.pre.Phase = "completed"

-----------------------------------------------------------------------------
(* Claims about the session store                                           *)

SameIssue(row, owner, repo, issueNumber) ==
    /\ row.repo_owner = owner
    /\ row.repo_name = repo
    /\ row.issue_number = issueNumber

\* The rows stored for the issue of session s.
StoredFor(d, s) ==
    { r \in d.sessions : SameIssue(r, s.RepoOwner, s.RepoName, s.IssueNumber) }

\* The error create returns for a session that already exists.
UniquenessError(owner, repo, issueNumber) ==
    <<"session already exists for " \o owner \o "/" \o repo \o "#"
          \o ToString(issueNumber)>>

\* C4: the store holds at most one session per (owner, repository,
\* issueNumber) and at most one per id after any sequence of store
\* operations, and create for a triple that is already stored fails with the
\* uniqueness error and leaves the one original row unchanged (the store
\* having run the statement).
C4_OneSessionPerIssue ==
    /\ \A r1, r2 \in db.sessions :
           ( \/ r1.id = r2.id
             \/ SameIssue(r1, r2.repo_owner, r2.repo_name, r2.issue_number) )
           => r1 = r2
    /\ ( /\ ret.op = "Create"
         /\ ret.arg[2] = Nil
         /\ StoredFor(ret.pre, ret.arg[1]) # {} )
       => /\ ret.err = UniquenessError(ret.arg[1].RepoOwner, ret.arg[1].RepoName,
                                       ret.arg[1].IssueNumber)
          /\ db = ret.pre
          /\ Cardinality(StoredFor(db, ret.arg[1])) = 1

\* C4 witness: a second create for a stored triple returned the uniqueness
\* error beside another stored session, and the stored row still is the one
\* an update had moved to error.
C4_Witness ==
    /\ ret.op = "Create"
    /\ ret.arg[2] = Nil
    /\ ret.err = UniquenessError("a", "c", 1)
    /\ ret.arg[1].Phase = "planning"
    /\ \E r \in db.sessions : SameIssue(r, "a", "c", 1) /\ r.phase = "error"
    /\ Cardinality(db.sessions) = 2

\* C5: two loops that both looked the same triple up, found no session and
\* called create: exactly one create succeeded, the other returned the
\* uniqueness conflict, and one row exists for the triple.
C5_FirstWriterWins ==
    \A l1, l2 \in Loops :
        ( /\ l1 # l2
          /\ loops[l1].pc \in {"created", "backoff"}
          /\ loops[l2].pc \in {"created", "backoff"}
          /\ loops[l1].key = loops[l2].key )
        => LET k == loops[l1].key
           IN  /\ (loops[l1].err = Nil) # (loops[l2].err = Nil)
               /\ \A l \in {l1, l2} :
                      loops[l].err # Nil =>
                          loops[l].err = UniquenessError(k[1], k[2], k[3])
               /\ Cardinality({ r \in db.sessions :
                                  SameIssue(r, k[1], k[2], k[3]) }) = 1

\* C5 witness: both loops found no session for the same triple; L2 created
\* it and L1 got the conflict.
C5_Witness ==
    /\ loops["L1"].pc = "backoff"
    /\ loops["L2"].pc = "created"
    /\ loops["L1"].key = loops["L2"].key

\* C10: create returns the uniqueness error only if a session with the same
\* (owner, repo, issueNumber) is already stored: sessions for two different
\* triples never conflict, whatever the owner and repository strings.
C10_ConflictOnlySameIssue ==
    ( /\ ret.op = "Create"
      /\ ret.err = UniquenessError(ret.arg[1].RepoOwner, ret.arg[1].RepoName,
                                   ret.arg[1].IssueNumber) )
    => StoredFor(ret.pre, ret.arg[1]) # {}

-----------------------------------------------------------------------------
(* Claims about the rows an update writes                                   *)

\* C11: after a successful update(s) of a stored session, get(s.id) returns
\* a session whose phase, prNumber, containerRef, planText, errorText and
\* lastActivity are those of s (an absent field absent), and whose id, owner,
\* repository, issueNumber, branch and createdAt are those the row held
\* before the update, as on every update since its creation.
C11_UpdateRoundTrip ==
    (ret.op = "Update" /\ ret.err = Nil) =>
        LET s == ret.arg[1]
            got == Get(db, s.ID, Nil)
        IN  /\ got.err = Nil
            /\ got.sess # Nil
            /\ \E old \in ret.pre.sessions :
                   /\ got.sess[1].ID = old.id
                   /\ got.sess[1].RepoOwner = old.repo_owner
                   /\ got.sess[1].RepoName = old.repo_name
                   /\ got.sess[1].IssueNumber = old.issue_number
                   /\ got.sess[1].Branch = old.branch
                   /\ got.sess[1].CreatedAt = old.created_at
            /\ got.sess[1].Phase = s.Phase
            /\ got.sess[1].PRNumber = s.PRNumber
            /\ got.sess[1].ContainerID = s.ContainerID
            /\ got.sess[1].PlanContent = s.PlanContent
            /\ got.sess[1].ErrorMessage = s.ErrorMessage
            /\ got.sess[1].LastActivity = s.LastActivity

\* C11 witness: a row that held a container, a plan and an error text was
\* updated, after its creation, with a session of the other owner built
\* later, whose container is absent and whose PR number is zero.
C11_Witness ==
    /\ ret.op = "Update"
    /\ ret.err = Nil
    /\ ret.arg[1].ContainerID = Nil
    /\ ret.arg[1].PRNumber = <<0>>
    /\ ret.arg[1].PlanContent = Nil
    /\ ret.arg[1].LastActivity = 2
    /\ \E old \in ret.pre.sessions :
           /\ old.container_id = <<"c1">>
           /\ old.plan_content = <<"">>
           /\ old.created_at = 0
           /\ old.last_activity = 1
           /\ old.repo_owner # ret.arg[1].RepoOwner

\* The validity the store is to keep: non-empty id, owner, repository and
\* branch, a positive issue number and one of the seven phases.
ValidRow(r) ==
    /\ r.id # "" /\ r.repo_owner # "" /\ r.repo_name # "" /\ r.branch # ""
    /\ r.issue_number > 0
    /\ r.phase \in { "planning", "awaiting_approval", "implementing", "in_review",
                     "revising", "completed", "error" }

\* C17: every stored row is valid in every reachable state, and create and
\* update of a session that is not valid return a validation error and write
\* nothing.
C17_RowsValid ==
    /\ \A r \in db.sessions : ValidRow(r)
    /\ ( /\ ret.op \in {"Create", "Update"}
         /\ ~ValidRow(SessionRow(ret.arg[1])) )
       => /\ ret.err # Nil
          /\ SubSeq(ret.err[1], 1, 17) = "invalid session: "
          /\ db = ret.pre

\* C17 witness: an update of the stored session with a phase that is no
\* phase was refused.
C17_Witness ==
    /\ ret.op = "Update"
    /\ ret.arg[1].Phase = "bogus"
    /\ ret.arg[1].ID \in { r.id : r \in db.sessions }
    /\ ret.err = <<"invalid session: invalid phase: bogus">>

-----------------------------------------------------------------------------
(* Claims about update, delete and the event log                            *)

StoreOps ==
    { "Create", "Get", "GetByIssue", "Update", "Delete", "List", "Count",
      "RecordEvent", "GetEvents" }

NotFoundError(id) == <<"session not found: " \o id>>

StoredIDs(d) == { r.id : r \in d.sessions }

\* C12: update(s) for an id with no stored row creates no row and changes no
\* stored session or event, and (s being valid and the statement having run)
\* returns the not-found error.
C12_UpdateOfMissingRow ==
    ( /\ ret.op = "Update"
      /\ ret.arg[1].ID \notin StoredIDs(ret.pre) )
    => /\ ret.err # Nil
       /\ db = ret.pre
       /\ (Validate(ret.arg[1]) = Nil /\ ret.arg[2] = Nil)
              => ret.err = NotFoundError(ret.arg[1].ID)

\* C12 witness: an update of a session that is not stored returned
\* not-found, in a database that holds another session and its event and
\* that has lost an event to a deletion.
C12_Witness ==
    /\ ret.op = "Update"
    /\ ret.err = NotFoundError("a-c-issue-1")
    /\ ret.arg[1].PRNumber = <<0>>
    /\ StoredIDs(db) = {"a-b-c-issue-1"}
    /\ Cardinality(db.events) = 1
    /\ db.seq = 2

\* C13: after a successful delete(id), get(id) returns not-found and
\* getEvents(id) an empty sequence, and the sessions and events of every
\* other id are unchanged; delete of an id with no stored row (the statement
\* having run) returns the not-found error, and changes nothing.
C13_DeleteCascades ==
    ret.op = "Delete" =>
        LET id == ret.arg[1]
        IN  /\ ret.err = Nil =>
                  /\ Get(db, id, Nil) = [sess |-> Nil, err |-> Nil]
                  /\ GetEvents(db, id, Nil) = { [events |-> <<>>, err |-> Nil] }
                  /\ { r \in db.sessions : r.id # id }
                         = { r \in ret.pre.sessions : r.id # id }
                  /\ { e \in db.events : e.session_id # id }
                         = { e \in ret.pre.events : e.session_id # id }
            /\ id \notin StoredIDs(ret.pre) =>
                  /\ db = ret.pre
                  /\ ret.arg[2] = Nil => ret.err = NotFoundError(id)

\* C13 witness: a session with an event was deleted beside another session
\* with an event.
C13_Witness ==
    /\ ret.op = "Delete"
    /\ ret.err = Nil
    /\ \E e \in ret.pre.events : e.session_id = ret.arg[1]
    /\ \E e \in db.events : e.session_id # ret.arg[1]

\* C14: each stored event's sessionId is the id of a stored session, in every
\* reachable state; recordEvent for an id with no stored session fails and
\* appends no event.
C14_NoOrphanEvents ==
    /\ \A e \in db.events : e.session_id \in StoredIDs(db)
    /\ ( /\ ret.op = "RecordEvent"
         /\ ret.arg[1] \notin StoredIDs(ret.pre) )
       => ret.err # Nil /\ db = ret.pre

\* C14 witness: recordEvent for a session that was deleted was refused by
\* the foreign key, beside a stored event of another session.
C14_Witness ==
    /\ ret.op = "RecordEvent"
    /\ ret.arg[4] = Nil
    /\ ret.err = <<"record event: constraint failed: FOREIGN KEY constraint failed (787)">>
    /\ db.seq = 1
    /\ db.events = {}

\* The part of the history that was recorded for one session, as the
\* events getEvents is to return (the ids left out).
RecordedFor(sessionID) ==
    LET at == { i \in 1..Len(recorded) : recorded[i].session_id = sessionID }
        nth(k) == CHOOSE i \in at : Cardinality({ j \in at : j <= i }) = k
    IN  [k \in 1..Cardinality(at) |->
            [ SessionID |-> sessionID,
              EventType |-> recorded[nth(k)].event_type,
              CreatedAt |-> recorded[nth(k)].at ]]

\* C15: getEvents(sessionId) returns the events recorded for that session
\* and no others, in the order in which the recordEvent calls were made, also
\* when calls received equal createdAt timestamps.
C15_EventsInCallOrder ==
    (ret.op = "GetEvents" /\ ret.err = Nil) =>
        [k \in 1..Len(ret.out) |->
            [ SessionID |-> ret.out[k].SessionID,
              EventType |-> ret.out[k].EventType,
              CreatedAt |-> ret.out[k].CreatedAt ]]
        = RecordedFor(ret.arg[1])

\* C16: the event log is append-only: no operation changes a stored event,
\* the only operation that removes events is a delete, which removes those of
\* the session it deletes, and the only one that adds an event is
\* recordEvent, which adds one under a new id.
C16_AppendOnly ==
    ret.op \in StoreOps =>
        LET gone == ret.pre.events \ db.events
            new == db.events \ ret.pre.events
        IN  /\ gone # {} => /\ ret.op = "Delete"
                            /\ ret.err = Nil
                            /\ \A e \in gone : e.session_id = ret.arg[1]
            /\ new # {} => /\ ret.op = "RecordEvent"
                           /\ Cardinality(new) = 1
                           /\ \A e \in new : \A o \in ret.pre.events : e.id # o.id

\* C16 witness: a session that has an event was updated.
C16_Witness ==
    /\ ret.op = "Update"
    /\ ret.err = Nil
    /\ db.sessions # ret.pre.sessions
    /\ \E e \in db.events : e.session_id = ret.arg[1].ID

\* C18: every store operation that returns an error leaves the stored
\* sessions and events as they were before the call.
C18_ErrorLeavesStore ==
    (ret.op \in StoreOps /\ ret.err # Nil) => db = ret.pre

\* C18 witness: a recordEvent for a stored session with an event met a
\* cancelled context.
C18_Witness ==
    /\ ret.op = "RecordEvent"
    /\ ret.err = <<"record event: context canceled">>
    /\ ret.arg[1] \in StoredIDs(db)
    /\ db.events # {}

-----------------------------------------------------------------------------
(* Claims about schema migrations                                           *)

\* C19: a Migrate run that began on a file at recorded version v (0 <= v <= 3)
\* and returned nil applied the steps v+1 .. 3, in that order, each once, and
\* left recorded version 3 and the tables sessions, session_events and
\* schema_migrations; begun at version 3 it left the file as it was.
C19_MigrateToLatest ==
    (mig.pc = "idle" /\ mig.ended = "ok") =>
        LET v == CurrentVersion(mig.start.versions)
        IN  /\ v \in 0..3
            /\ mig.ran = [k \in 1..(3 - v) |-> v + k]
            /\ CurrentVersion(mig.versions) = 3
            /\ {"sessions", "session_events", "schema_migrations"} \subseteq mig.tables
            /\ v = 3 => /\ mig.tables = mig.start.tables
                        /\ mig.versions = mig.start.versions

\* C19 witness: a run begun at version 1 returned nil after steps 2 and 3.
C19_Witness ==
    /\ mig.pc = "idle"
    /\ mig.ended = "ok"
    /\ mig.start.versions = {1}
    /\ mig.ran = <<2, 3>>

\* The recorded versions are a prefix 1..k of the step list, recorded in
\* ascending order, each once, by all runs together; and a run that returned
\* nil went on from the step after the version it found.
ResumedInOrder ==
    /\ mig.versions = 1..Len(mig.log)
    /\ mig.log = [k \in 1..Len(mig.log) |-> k]
    /\ Len(mig.log) <= 3
    /\ (mig.pc = "idle" /\ mig.ended = "ok") =>
           /\ mig.log = <<1, 2, 3>>
           /\ \A k \in 1..Len(mig.ran) :
                  mig.ran[k] = CurrentVersion(mig.start.versions) + k

\* C20: after a Migrate run that was interrupted at any point, the recorded
\* versions are those of the fully applied steps and a prefix 1..k of the
\* step list, every step's schema change and version record being committed
\* together or not at all; a later run finishes from step k+1 without
\* applying a step again or skipping one.
C20_InterruptedMigrate ==
    /\ ResumedInOrder
    /\ (mig.pc = "idle" /\ mig.ended \in {"error", "crash"}) =>
           \A n \in 1..Len(migrations) :
               (migrations[n].Table \in mig.tables)
                   <=> (migrations[n].Version \in mig.versions)

\* C20 as amended: the same, the schema change and the version record being
\* committed together or not at all for steps 1 and 2; the table of step 3,
\* schema_migrations, is there whenever a version is recorded (the bootstrap
\* statement of every run creates it, apart from the record of version 3).
C20_InterruptedMigrateAmended ==
    /\ ResumedInOrder
    /\ \A n \in 1..Len(migrations) :
           IF migrations[n].Version \in {1, 2}
           THEN (migrations[n].Table \in mig.tables)
                    <=> (migrations[n].Version \in mig.versions)
           ELSE mig.versions # {} => migrations[n].Table \in mig.tables

\* C20 witness: after a run that was interrupted with step 1 committed and a
\* run that was interrupted with step 2 committed, a third run returned nil
\* having recorded version 3 alone.
C20_Witness ==
    /\ mig.runs = 3
    /\ mig.pc = "idle"
    /\ mig.ended = "ok"
    /\ mig.start.versions = {1, 2}
    /\ mig.ran = <<3>>
    /\ mig.log = <<1, 2, 3>>

-----------------------------------------------------------------------------
(* Claims about List and Count                                              *)

\* The stored rows that satisfy every condition the filter sets.
Satisfying(d, filter) ==
    { r \in d.sessions :
        /\ (filter.RepoOwner = "" \/ r.repo_owner = filter.RepoOwner)
        /\ (filter.RepoName = "" \/ r.repo_name = filter.RepoName)
        /\ (filter.Phase = Nil \/ r.phase = filter.Phase[1])
        /\ (~filter.ActiveOnly \/ ~IsTerminal(r.phase)) }

\* out holds rows of the set rows, each at most once, as Get would load them.
DistinctRowsOf(out, rows) ==
    /\ \A i \in 1..Len(out) : \E r \in rows : out[i] = ScanSession(r)
    /\ \A i, j \in 1..Len(out) : i # j => out[i].ID # out[j].ID

\* out runs from the latest lastActivity to the earliest.
LastActivityDescending(out) ==
    \A i \in 1..(Len(out) - 1) : out[i].LastActivity >= out[i + 1].LastActivity

\* The sequences that list the set rows once each, latest lastActivity first.
DescendingOrders(rows) ==
    { q \in Orderings(rows) :
          \A i \in 1..(Len(q) - 1) : q[i].last_activity >= q[i + 1].last_activity }

\* C21: List with activeOnly alone (no other condition, no limit) returns
\* exactly the stored sessions whose phase is neither completed nor error,
\* whatever the phases of the stored sessions are.
C21_ActiveOnlyList ==
    ( /\ ret.op = "List"
      /\ ret.err = Nil
      /\ ret.arg[1] = SessionFilter("", "", Nil, TRUE, 0, 0) )
        => LET active == { r \in ret.pre.sessions :
                              r.phase \notin {PhaseCompleted, PhaseError} }
           IN  /\ DistinctRowsOf(ret.out, active)
               /\ Len(ret.out) = Cardinality(active)

\* C21 witness: an active-only List over a store that holds a completed, an
\* error and an in_review session has returned one session.
C21_Witness ==
    /\ ret.op = "List"
    /\ ret.err = Nil
    /\ ret.arg[1] = SessionFilter("", "", Nil, TRUE, 0, 0)
    /\ { r.phase : r \in ret.pre.sessions }
           = {PhaseCompleted, PhaseError, PhaseInReview}
    /\ Len(ret.out) = 1

\* C22: List(filter) (no offset) returns exactly the stored sessions that
\* satisfy all the set conditions of the filter, latest lastActivity first,
\* and only the first Limit of them when Limit is positive.
C22_ListFilterOrderLimit ==
    (ret.op = "List" /\ ret.err = Nil /\ ret.arg[1].Offset = 0)
        => LET filter == ret.arg[1]
               rows == Satisfying(ret.pre, filter)
               returned == { ret.out[i].ID : i \in 1..Len(ret.out) }
           IN  /\ DistinctRowsOf(ret.out, rows)
               /\ LastActivityDescending(ret.out)
               /\ filter.Limit <= 0 => Len(ret.out) = Cardinality(rows)
               /\ filter.Limit > 0 =>
                      /\ Len(ret.out) = IF Cardinality(rows) < filter.Limit
                                        THEN Cardinality(rows)
                                        ELSE filter.Limit
                      /\ \A r \in rows : r.id \notin returned =>
                             \A i \in 1..Len(ret.out) :
                                 ret.out[i].LastActivity >= r.last_activity

\* C22 witness: a List with two conditions and limit 2 over three stored
\* sessions, one of them terminal, has returned the two others, the later
\* touched first.
C22_Witness ==
    /\ ret.op = "List"
    /\ ret.err = Nil
    /\ ret.arg[1] = SessionFilter("", "", Nil, TRUE, 2, 0)
    /\ Cardinality(ret.pre.sessions) = 3
    /\ Len(ret.out) = 2
    /\ ret.out[1].LastActivity > ret.out[2].LastActivity

\* C23: List applies the offset of every filter: the result is the filtered
\* sequence, latest lastActivity first, without its first Offset sessions
\* (then cut to Limit sessions when a limit is set), with or without a limit.
C23_OffsetApplied ==
    (ret.op = "List" /\ ret.err = Nil)
        => LET filter == ret.arg[1]
               k == IF filter.Offset > 0 THEN filter.Offset ELSE 0
               rest(q) == IF Len(q) > k THEN SubSeq(q, k + 1, Len(q)) ELSE <<>>
               cut(q) == IF filter.Limit > 0 /\ Len(q) > filter.Limit
                         THEN SubSeq(q, 1, filter.Limit)
                         ELSE q
           IN  \E q \in DescendingOrders(Satisfying(ret.pre, filter)) :
                   ret.out = [i \in 1..Len(cut(rest(q))) |->
                                  ScanSession(cut(rest(q))[i])]

\* C24: Count(filter) is the number of stored sessions that satisfy the
\* conditions of the filter, which is the length of what List returns for
\* the same filter without limit and offset.
C24_CountIsListLength ==
    (ret.op = "Count" /\ ret.err = Nil)
        => LET filter == ret.arg[1]
               unpaged == [filter EXCEPT !.Limit = 0, !.Offset = 0]
           IN  /\ ret.out[1] = Cardinality(Satisfying(ret.pre, filter))
               /\ \A r \in List(ret.pre, unpaged, Nil) :
                      r.err = Nil /\ Len(r.sessions) = ret.out[1]

\* C24 witness: Count with an owner and the active-only condition has
\* returned 1 over a store of three sessions.
C24_Witness ==
    /\ ret.op = "Count"
    /\ ret.err = Nil
    /\ ret.arg[1] = SessionFilter("a", "", Nil, TRUE, 0, 0)
    /\ Cardinality(ret.pre.sessions) = 3
    /\ ret.out = <<1>>

-----------------------------------------------------------------------------
(* Claims about the construction and the timestamps of a Session            *)

Mutators ==
    { "TransitionTo", "SetPlan", "Approve", "SetError", "SetPRNumber",
      "SetContainerID", "ClearContainerID", "Touch" }

\* C25: NewSession(owner, repo, n) yields a session with id
\* "{owner}-{repo}-issue-{n}", branch "claude/issue-{n}", phase planning,
\* createdAt = lastActivity, and no PR number, container, plan or error;
\* everything but the timestamps is a function of (owner, repo, n), so the
\* same trigger resolves to the same id.
C25_NewSession ==
    ret.op = "NewSession"
        => LET owner == ret.arg[1]
               repo == ret.arg[2]
               n == ret.arg[3]
           IN  /\ sess = [ ID           |-> owner \o "-" \o repo \o "-issue-" \o ToString(n),
                           RepoOwner    |-> owner,
                           RepoName     |-> repo,
                           IssueNumber  |-> n,
                           PRNumber     |-> Nil,
                           Phase        |-> "planning",
                           Branch       |-> "claude/issue-" \o ToString(n),
                           ContainerID  |-> Nil,
                           PlanContent  |-> Nil,
                           ErrorMessage |-> Nil,
                           CreatedAt    |-> ret.at,
                           LastActivity |-> ret.at ]
               /\ sess.CreatedAt = sess.LastActivity
               /\ ( /\ ret.pre.RepoOwner = owner
                    /\ ret.pre.RepoName = repo
                    /\ ret.pre.IssueNumber = n ) => ret.pre.ID = sess.ID

\* C25 witness: NewSession was called for a-b/b-c#7 while the caller held an
\* earlier, since changed session of the same issue.
C25_Witness ==
    /\ ret.op = "NewSession"
    /\ ret.arg = <<"a-b", "b-c", 7>>
    /\ sess.ID = "a-b-b-c-issue-7"
    /\ sess.Branch = "claude/issue-7"
    /\ ret.pre.ID = sess.ID
    /\ ret.pre.CreatedAt < sess.CreatedAt
    /\ ret.pre.Phase # PhasePlanning

\* C26: for a session built by NewSession and changed only by its methods,
\* lastActivity >= createdAt in every state, no method changes createdAt,
\* and no method moves lastActivity back (the clock never goes backwards).
C26_Timestamps ==
    /\ sess.LastActivity >= sess.CreatedAt
    /\ ret.op \in Mutators =>
           /\ sess.CreatedAt = ret.pre.CreatedAt
           /\ sess.LastActivity >= ret.pre.LastActivity
           /\ ret.err = Nil => sess.LastActivity = ret.at

\* C26 witness: a session built after the clock had advanced was touched
\* later still.
C26_Witness ==
    /\ ret.op = "Touch"
    /\ sess.CreatedAt > 0
    /\ ret.pre.LastActivity = sess.CreatedAt
    /\ sess.LastActivity > sess.CreatedAt

-----------------------------------------------------------------------------
(* Claims about ParsePhase                                                  *)

Whitespace == {" ", "\t", "\n", "\r", "\f"}

\* The string without the whitespace around it: the part from its first to
\* its last character that is no whitespace.
Trimmed(str) ==
    LET inked == { i \in 1..Len(str) : SubSeq(str, i, i) \notin Whitespace }
    IN  IF inked = {}
        THEN ""
        ELSE SubSeq(str, CHOOSE i \in inked : \A j \in inked : i <= j,
                         CHOOSE i \in inked : \A j \in inked : i >= j)

\* a is b in lower case: the same length, and each character of b either
\* already that of a or the capital of it.
IsLowerCaseOf(a, b) ==
    /\ Len(a) = Len(b)
    /\ \A i \in 1..Len(a) :
           \/ /\ SubSeq(a, i, i) = SubSeq(b, i, i)
              /\ \A k \in 1..Len(UpperLetters) :
                     SubSeq(UpperLetters, k, k) # SubSeq(b, i, i)
           \/ \E k \in 1..Len(UpperLetters) :
                  /\ SubSeq(UpperLetters, k, k) = SubSeq(b, i, i)
                  /\ SubSeq(LowerLetters, k, k) = SubSeq(a, i, i)

\* The canonical strings of the seven phases.
CanonicalStrings ==
    { "planning", "awaiting_approval", "implementing", "in_review", "revising",
      "completed", "error" }

\* C27: ParsePhase(input) returns phase p exactly when the input, trimmed of
\* surrounding whitespace and lower-cased, is the canonical string of p, for
\* each of the seven phases; every other input, the empty string included,
\* fails; the canonical string of a phase parses to that phase.
C27_ParsePhase ==
    /\ ret.op = "ParsePhase" =>
           LET input == ret.arg[1]
           IN  /\ \A p \in CanonicalStrings :
                      (ret.err = Nil /\ ret.out = p)
                          <=> IsLowerCaseOf(p, Trimmed(input))
               /\ (\A p \in CanonicalStrings : ~IsLowerCaseOf(p, Trimmed(input)))
                      => ret.err # Nil /\ ret.out = ""
               /\ input = "" => ret.err # Nil
    /\ \A p \in CanonicalStrings : ParsePhase(p) = [phase |-> p, err |-> Nil]
    /\ Len(AllPhases) = 7 /\ \A i \in 1..7 : AllPhases[i] \in CanonicalStrings

\* C27 witness: "In_Review" with a tab and a space before it and a line end
\* after it was parsed to in_review.
C27_Witness ==
    /\ ret.op = "ParsePhase"
    /\ ret.arg = <<"\t In_Review\r\n">>
    /\ ret.err = Nil
    /\ ret.out = PhaseInReview

-----------------------------------------------------------------------------
(* Claims about tickets                                                     *)

\* The statuses of the ticket files named id.
StatusesOnDisk(files, id) == { f.data.Status : f \in { g \in files : g.name = id } }

\* The steps a ticket's status can take.
TicketSteps ==
    { <<"pending", "in_progress">>, <<"in_progress", "completed">>,
      <<"in_progress", "error">> }

\* ret is a Process call from its start: it returned at once (Process) or
\* went on to the job (Process.mark).
ProcessCalled == ret.op \in {"Process", "Process.mark"} /\ ret.pre.pc = "idle"

\* C28: ticket processing follows pending -> in_progress -> completed |
\* error.  Process accepts only a ticket that is pending and has a prompt,
\* marks it in_progress on disk before the job starts, and rejects a ticket
\* that is in_progress, completed or error with an error, leaving the disk
\* as it was.
C28_TicketLifecycle ==
    /\ ret.op # "none" =>
           \A f \in ret.pre.files : \A g \in tickets.files :
               f.name = g.name =>
                   \/ f.data.Status = g.data.Status
                   \/ <<f.data.Status, g.data.Status>> \in TicketSteps
    /\ ret.op = "Process.mark" =>
           LET id == ret.out[1].ID
           IN  /\ StatusesOnDisk(ret.pre.files, id) = {"pending"}
               /\ \E f \in ret.pre.files :
                      /\ f.name = id
                      /\ \E i \in 1..Len(f.data.Entries) :
                             /\ f.data.Entries[i].Type = "prompt"
                             /\ f.data.Entries[i].Content # ""
               /\ StatusesOnDisk(tickets.files, id) = {"in_progress"}
    /\ tickets.pc = "running" =>
           StatusesOnDisk(tickets.files, tickets.ticket[1].ID) = {"in_progress"}
    /\ ( /\ ProcessCalled
         /\ ret.arg[1] # ""
         /\ StatusesOnDisk(ret.pre.files, ret.arg[1])
                \cap {"in_progress", "completed", "error"} # {} )
           => /\ ret.op = "Process"
              /\ ret.err # Nil
              /\ ret.out = Nil
              /\ tickets = ret.pre

\* C28 witness: Process was called with the id of a ticket that an earlier
\* call had taken from pending to completed, and rejected it.
C28_Witness ==
    /\ ProcessCalled
    /\ ret.arg = <<"ticket_1">>
    /\ StatusesOnDisk(ret.pre.files, "ticket_1") = {"completed"}
    /\ ret.err # Nil
    /\ tickets.files = ret.pre.files

\* C29: Process with no ticket id takes the pending ticket created first,
\* so pending tickets are processed in the order of their creation; it
\* never takes a ticket of another status, and with no pending ticket it
\* returns no ticket and no error.
C29_NextPendingFIFO ==
    /\ (ProcessCalled /\ ret.arg = <<"">>) =>
           LET pending == { f.data : f \in { g \in ret.pre.files : g.dir = "pending" } }
           IN  /\ pending = {} =>
                      ret.op = "Process" /\ ret.out = Nil /\ ret.err = Nil
               /\ ret.op = "Process.mark" =>
                      /\ \E p \in pending :
                             p.ID = ret.out[1].ID /\ p.Status = "pending"
                      /\ \A p \in pending : p.CreatedAt >= ret.out[1].CreatedAt
               /\ (pending # {} /\ ret.op = "Process") => ret.err # Nil
    /\ \A i, j \in 1..Len(tickets.fifo) :
           i < j => tickets.fifo[i].CreatedAt <= tickets.fifo[j].CreatedAt

\* C29 witness: with two pending tickets created at different times,
\* Process without an id has taken the earlier one.
C29_Witness ==
    /\ ret.op = "Process.mark"
    /\ ret.arg = <<"">>
    /\ Cardinality({ f \in ret.pre.files : f.dir = "pending" }) = 2
    /\ \E f \in ret.pre.files :
           f.dir = "pending" /\ f.data.CreatedAt > ret.out[1].CreatedAt

-----------------------------------------------------------------------------
(* Claims about the GitHub client                                           *)

-----------------------------------------------------------------------------
(* Claims about walks along the transition table                            *)

\* The walk returns at step j to the phase it was in at step i.
Returns(i, j) ==
    /\ i \in 1..Len(recorded) /\ j \in 1..Len(recorded) /\ i < j
    /\ recorded[i] = recorded[j]

\* The walk takes the edge e somewhere between its steps i and j.
Takes(e, i, j) ==
    \E k \in i..(j - 1) : <<recorded[k], recorded[k + 1]>> = e

\* The edges of the table that lead back to a phase a session can have been
\* in before.
BackEdges ==
    { <<"awaiting_approval", "planning">>, <<"revising", "in_review">>,
      <<"error", "planning">> }

\* C31: error -> planning is the only cycle of the transition graph: every
\* walk along legal transitions that returns to a phase it has been in takes
\* the edge error -> planning on the way, so a session that never enters
\* error is in each phase at most once.
C31_RetryOnlyCycle ==
    /\ \A i, j \in 1..Len(recorded) :
           Returns(i, j) => Takes(<<"error", "planning">>, i, j)
    /\ (\A k \in 1..Len(recorded) : recorded[k] # "error")
           => \A i, j \in 1..Len(recorded) : ~Returns(i, j)

\* C31, amended: every walk along legal transitions that returns to a phase
\* it has been in takes one of the edges awaiting_approval -> planning,
\* revising -> in_review, error -> planning on the way; a session that takes
\* none of the three is in each phase at most once; and every step of the
\* walk is an edge of the table.
C31_BackEdgeCycles ==
    /\ \A i, j \in 1..Len(recorded) :
           Returns(i, j) => \E e \in BackEdges : Takes(e, i, j)
    /\ (\A e \in BackEdges : ~Takes(e, 1, Len(recorded)))
           => \A i, j \in 1..Len(recorded) : ~Returns(i, j)
    /\ \A k \in 1..(Len(recorded) - 1) :
           <<recorded[k], recorded[k + 1]>> \in TableEdges

\* C31 witness: the session is back in planning after a rejected plan and
\* back in in_review after a revision, without ever having been in error.
C31_Witness ==
    /\ recorded = << "planning", "awaiting_approval", "planning",
                     "awaiting_approval", "implementing", "in_review",
                     "revising", "in_review" >>
    /\ sess.Phase = "in_review"
    /\ ret.op = "TransitionTo" /\ ret.err = Nil

\* C32: every walk along legal transitions from planning to completed passes
\* through awaiting_approval, then implementing, then in_review, in that
\* order, and no legal transition enters completed from a phase other than
\* in_review.
C32_RoadToCompleted ==
    /\ \A i, j \in 1..Len(recorded) :
           (i < j /\ recorded[i] = "planning" /\ recorded[j] = "completed")
               => \E a, b, c \in (i + 1)..(j - 1) :
                      /\ a < b /\ b < c
                      /\ recorded[a] = "awaiting_approval"
                      /\ recorded[b] = "implementing"
                      /\ recorded[c] = "in_review"
    /\ \A j \in 2..Len(recorded) :
           recorded[j] = "completed" => recorded[j - 1] = "in_review"
    /\ (ret.op \in {"TransitionTo", "Approve"} /\ ret.err = Nil
            /\ sess.Phase = "completed")
           => ret.pre.Phase = "in_review"

\* C32 witness: the shortest walk from planning to completed has been taken.
C32_Witness ==
    /\ recorded = << "planning", "awaiting_approval", "implementing",
                     "in_review", "completed" >>
    /\ ret.op = "TransitionTo" /\ ret.arg = <<"completed">> /\ ret.err = Nil
    /\ sess.Phase = "completed"

-----------------------------------------------------------------------------
(* Claims about retries, the container reference and the field setters      *)

\* C33: retrying starts over from scratch: after TransitionTo(planning) has
\* succeeded on a session in error, PlanContent, ErrorMessage, PRNumber and
\* ContainerID are absent, as on a new session.
C33_RetryFromScratch ==
    (ret.op = "TransitionTo" /\ ret.arg = <<"planning">> /\ ret.err = Nil
        /\ ret.pre.Phase = "error")
        => /\ sess.Phase = "planning"
           /\ sess.PlanContent = Nil
           /\ sess.ErrorMessage = Nil
           /\ sess.PRNumber = Nil
           /\ sess.ContainerID = Nil

\* C34: the container reference is present only while work is running: a
\* session in phase completed or error has no ContainerID, whatever entity
\* operations have been called.
C34_NoContainerWhenTerminal ==
    sess.Phase \in {"completed", "error"} => sess.ContainerID = Nil

\* The fields of a session other than the given ones are as before the call.
OnlyChanged(fields) ==
    \A f \in DOMAIN sess : f \notin fields => sess[f] = ret.pre[f]

\* C35: SetPRNumber, SetContainerID, ClearContainerID and Touch are not gated
\* by the state machine: each succeeds in every phase, leaves Phase,
\* PlanContent, ErrorMessage and CreatedAt as they were, and changes only its
\* own field (none for Touch) and LastActivity, which becomes the time of the
\* call.
C35_UngatedSetters ==
    /\ ret.op \in {"SetPRNumber", "SetContainerID", "ClearContainerID", "Touch"}
           => /\ ret.err = Nil
              /\ sess.LastActivity = ret.at
              /\ sess.Phase = ret.pre.Phase
              /\ sess.PlanContent = ret.pre.PlanContent
              /\ sess.ErrorMessage = ret.pre.ErrorMessage
              /\ sess.CreatedAt = ret.pre.CreatedAt
    /\ ret.op = "SetPRNumber"
           => sess.PRNumber = <<ret.arg[1]>> /\ OnlyChanged({"PRNumber", "LastActivity"})
    /\ ret.op = "SetContainerID"
           => sess.ContainerID = <<ret.arg[1]>>
                  /\ OnlyChanged({"ContainerID", "LastActivity"})
    /\ ret.op = "ClearContainerID"
           => sess.ContainerID = Nil /\ OnlyChanged({"ContainerID", "LastActivity"})
    /\ ret.op = "Touch" => OnlyChanged({"LastActivity"})

\* C35 witness: a container id has been set on a completed session that had
\* none, later than the session's last activity.
C35_Witness ==
    /\ ret.op = "SetContainerID"
    /\ ret.pre.Phase = "completed"
    /\ ret.pre.ContainerID = Nil
    /\ ret.pre.PlanContent = <<"plan A">>
    /\ ret.at > ret.pre.LastActivity
    /\ sess.ContainerID = <<"c1">>

-----------------------------------------------------------------------------
(* Claims about two callers of the session store                            *)

\* C36: two callers load the same session, change their copies by entity
\* operations and call Update: in every interleaving each change of the
\* stored phase is an edge of the transition table or a forced move to error,
\* and no Update replaces a phase the other caller wrote with one derived from
\* a copy read before that write (the row still has the phase the writer's
\* copy was derived from).
C36_StoredPhaseObeysTable ==
    /\ \A k \in 1..(Len(recorded) - 1) :
           recorded[k] # recorded[k + 1]
               => \/ <<recorded[k], recorded[k + 1]>> \in TableEdges
                  \/ recorded[k + 1] = "error"
    /\ (ret.op = "Update" /\ ret.err = Nil)
           => StoredPhase(ret.pre) = ret.arg[3]

-----------------------------------------------------------------------------
(* Claims about concurrent and interrupted ticket processing                *)

\* A command is inside Update for the ticket.
UpdateInProgress(id) ==
    \E p \in Processors :
        /\ tickets.procs[p].pc \in {"update", "remove", "write"}
        /\ tickets.procs[p].ticket[1].ID = id

\* C37: every ticket is stored under exactly one status directory whenever
\* no Update of it is in progress; a status change is all or nothing: after
\* a failed write or a kill at any point of Update the ticket is under its
\* old or under its new status, never under neither and never under both.
C37_OneStatusDirectory ==
    ~UpdateInProgress(TicketID(1))
        => Cardinality({ f.dir : f \in { g \in tickets.files :
                                            g.name = TicketID(1) } }) = 1

\* C38: when two Process calls run at the same time no ticket is run as a job
\* more than once: at most one of them marks a pending ticket and starts a
\* job for it.
C38_RunAtMostOnce ==
    \A i, j \in 1..Len(tickets.started) :
        tickets.started[i] = tickets.started[j] => i = j

\* ret is the return of a Process call that had marked its ticket, and the
\* file write before the return met no fault.
ReturnedAfterMark ==
    /\ ret.op = "Process"
    /\ ret.pre.pc \in {"marked", "running"}
    /\ ret.arg[2] = Nil

\* The job ran and finished with status completed.
JobRanCompleted ==
    /\ ret.pre.pc = "running"
    /\ Len(ret.arg) = 3
    /\ ret.arg[3].err = Nil
    /\ ret.arg[3].job.Status = "completed"

\* C39: a Process call that has marked a ticket in_progress and returns, all
\* its file writes having succeeded, leaves the ticket it returns and the
\* ticket on disk in completed or error, never in_progress: in completed
\* exactly when the job ran and finished with status completed.
C39_MarkedTicketIsSettled ==
    ReturnedAfterMark =>
        LET ticket == ret.out[1]
            onDisk == { f \in tickets.files : f.name = ticket.ID }
        IN  /\ ret.pre.ticket[1].Status = "in_progress"
            /\ ticket.ID = ret.pre.ticket[1].ID
            /\ ticket.Status \in {"completed", "error"}
            /\ ticket.Status = "completed" <=> JobRanCompleted
            /\ onDisk = {[dir |-> ticket.Status, name |-> ticket.ID, data |-> ticket]}
            /\ tickets.pc = "idle"

\* C39 witness: the job of the marked ticket ran and finished completed, the
\* result was written, and Process has returned the completed ticket.
C39_Witness ==
    /\ ReturnedAfterMark
    /\ JobRanCompleted
    /\ ret.err = Nil
    /\ ret.out[1].Status = "completed"
    /\ ret.out[1].JobID = "job_1"
    /\ \E f \in tickets.files : f.dir = "completed" /\ f.name = ret.out[1].ID

-----------------------------------------------------------------------------
(* Claims about the job runner                                              *)

\* The names of the steps of run n, in order.
StepsOf(n) ==
    LET OfRun(e) == e.run = n
        steps == SelectSeq(recorded, OfRun)
    IN  [i \in 1..Len(steps) |-> steps[i].ev]

\* The statuses the job of run n got, in order.
StatusesOf(n) ==
    LET IsStatus(ev) == ev \in {"pending", "running", "completed", "failed"}
    IN  SelectSeq(StepsOf(n), IsStatus)

IsPrefix(s, t) == Len(s) <= Len(t) /\ s = SubSeq(t, 1, Len(s))

\* The positions of the step named ev among the steps of run n.
At(n, ev) == { i \in 1..Len(StepsOf(n)) : StepsOf(n)[i] = ev }

\* C40: the status of a job moves only pending -> running -> completed or
\* failed.  Every Run that starts its job calls ComposeDown exactly once,
\* after executeJob has returned and before the job gets its last status,
\* whether executeJob returned an error or not (a Run that does not start
\* the job never calls it), and returns the job and no error: completed when
\* executeJob returned no error, failed with the text of the error otherwise.
C40_RunnerLifecycle ==
    /\ \A n \in 1..RunsCalled :
           /\ \/ IsPrefix(StatusesOf(n), <<"pending", "running", "completed">>)
              \/ IsPrefix(StatusesOf(n), <<"pending", "running", "failed">>)
           /\ Cardinality(At(n, "down")) <= 1
           /\ \A d \in At(n, "down") :
                  /\ \E r \in At(n, "running"), x \in At(n, "executed") : r < x /\ x < d
                  /\ \A e \in At(n, "completed") \cup At(n, "failed") : d < e
           /\ (At(n, "running") # {} /\ At(n, "return") # {})
                  => Cardinality(At(n, "down")) = 1
           /\ At(n, "executed") # {} => At(n, "running") # {}
    /\ (ret.op = "Run" /\ At(RunsCalled, "running") # {})
           => LET x == CHOOSE e \in { recorded[i] : i \in 1..Len(recorded) } :
                           e.run = RunsCalled /\ e.ev = "executed"
                  job == ret.out[1]
              IN  /\ ret.err = Nil /\ ret.out # Nil
                  /\ job.Status = IF x.err = Nil THEN "completed" ELSE "failed"
                  /\ job.Error = IF x.err = Nil THEN "" ELSE x.err[1]
                  /\ job.CompletedAt = <<ret.at>>
                  /\ job.ID = ret.pre[1].ID
    /\ (ret.op = "Run" /\ At(RunsCalled, "running") = {})
           => ret.err # Nil /\ ret.out = Nil

\* C40 witness: after a run that completed, a second run whose execution and
\* whose ComposeDown both failed has returned its job as failed.
C40_Witness ==
    /\ ret.op = "Run" /\ pc = "idle" /\ ret.err = Nil
    /\ StepsOf(1) = << "call", "pending", "running", "executed", "down",
                       "completed", "return" >>
    /\ StepsOf(2) = << "call", "pending", "running", "executed", "down",
                       "failed", "return" >>
    /\ \E i \in 1..Len(recorded) :
           recorded[i] = Step(2, "down", <<"exit status 1">>)
    /\ ret.out[1].Status = "failed"
    /\ ret.out[1].Error = "claude execution failed: exit status 1"

====
